---- MODULE Spec2Model ----
(***************************************************************************)
(* Model of the Jettison WASM OSD plugin: the framebuffer and primitive    *)
(* rasterizer (rendering/primitives.c), the plugin entry points            *)
(* (osd_plugin.c), the radar compass and crosshair widgets and the navball *)
(* widget with its lookup table.                                           *)
(*                                                                         *)
(* Conventions                                                             *)
(*   - a C float is a fixed-point integer in thousandths (1.0f = 1000);    *)
(*     Fl(n) converts an int, ToInt(v) is the C cast (int)v, which         *)
(*     truncates toward zero;                                              *)
(*   - a colour is <<a, b, g, r>> (0xAABBGGRR, one byte per channel);      *)
(*   - a drawing operation is the sequence of draw_pixel calls it makes,   *)
(*     in program order, folded over the framebuffer memory.               *)
(***************************************************************************)
EXTENDS Integers, Sequences, FiniteSets, TLC

VARIABLES
  fb,        \* framebuffer memory: [pix, out], see Mem
  prev_fb,   \* the pixel array before the last operation
  req,       \* the points the last rasterizer operation asked draw_pixel for
  op,        \* the last operation: [name, ret]
  ctx,       \* the plugin's osd_context_t (g_osd_ctx)
  calls,     \* how often each entry point has run, see NoCalls
  nav,       \* the navball fields of the context, see ZeroNav
  heap       \* the state of every block the navball allocated

rasterVars == <<fb, prev_fb, req>>

osdVars == <<ctx, calls>>

navVars == <<nav, heap>>

vars == <<fb, prev_fb, req, op, ctx, calls, nav, heap>>

(***************************************************************************)
(* Bounds of the model                                                     *)
(***************************************************************************)
\* framebuffer width and height in pixels (1920x1080 in the build)
FbWidth == 6
FbHeight == 5

(***************************************************************************)
(* C arithmetic                                                            *)
(***************************************************************************)
Fl(n) == n * 1000

ToInt(v) == IF v >= 0 THEN v \div 1000 ELSE -((-v) \div 1000)

Abs(n) == IF n < 0 THEN -n ELSE n

\* float product and quotient of two fixed-point values
FMul(a, b) == LET p == a * b IN IF p >= 0 THEN p \div 1000 ELSE -((-p) \div 1000)

(***************************************************************************)
(* Framebuffer (core/framebuffer.h): pixels[width*height], row-major       *)
(***************************************************************************)
Transparent == <<0, 0, 0, 0>>

NumPixels == FbWidth * FbHeight

ClearPixels == [i \in 0..(NumPixels - 1) |-> Transparent]

\* memory touched by the rasterizer: the pixel array, and the indices
\* outside the array that a store has hit
Mem(pixels, outside) == [pix |-> pixels, out |-> outside]

InBounds(x, y) == x >= 0 /\ x < FbWidth /\ y >= 0 /\ y < FbHeight

\* standard over-compositing, straight alpha: out = src*a + dst*(1-a)
BlendChannel(s, d, a) == (s * a + d * (255 - a)) \div 255

BlendColor(src, dst) ==
  LET a == src[1]
  IN <<a + (dst[1] * (255 - a)) \div 255,
       BlendChannel(src[2], dst[2], a),
       BlendChannel(src[3], dst[3], a),
       BlendChannel(src[4], dst[4], a)>>

\* framebuffer_blend_pixel: the pixel index it blends into; nothing outside
\* [0,width) x [0,height)
framebuffer_blend_pixel(x, y) == IF InBounds(x, y) THEN {y * FbWidth + x} ELSE {}

\* a pixel store without the bounds check
draw_pixel_unchecked(x, y) == {y * FbWidth + x}

\* draw_pixel: the pixel index one call stores to
draw_pixel(x, y) == framebuffer_blend_pixel(x, y)

\* n blends of one colour into one pixel; a blend that no longer changes the
\* pixel ends the iteration early
RECURSIVE BlendTimes(_, _, _)
BlendTimes(color, dst, n) ==
  LET b == BlendColor(color, dst)
  IN IF n = 0 \/ b = dst THEN dst ELSE BlendTimes(color, b, n - 1)

\* a sequence of <<x, y>> draw_pixel calls with one colour applied to the
\* memory: blends into different pixels commute, so every pixel receives its
\* own stores in program order; a store outside the array is recorded
Blit(m, pts, color) ==
  LET hit == [k \in 1..Len(pts) |-> draw_pixel(pts[k][1], pts[k][2])] \o <<>>
      Stores(i) == Cardinality({k \in 1..Len(hit) : i \in hit[k]})
      stored == UNION {hit[k] : k \in 1..Len(hit)}
      pixels == [i \in 0..(NumPixels - 1) |-> BlendTimes(color, m.pix[i], Stores(i))]
  IN Mem(IF pixels = m.pix THEN m.pix ELSE pixels,
         m.out \cup {j \in stored : j < 0 \/ j >= NumPixels})

\* concatenation of a sequence of sequences
RECURSIVE Flatten(_, _, _)
Flatten(ss, lo, hi) ==
  IF lo > hi THEN <<>>
  ELSE IF lo = hi THEN ss[lo] \o <<>>
  ELSE LET mid == (lo + hi) \div 2
       IN Flatten(ss, lo, mid) \o Flatten(ss, mid + 1, hi)

Concat(ss) == Flatten(ss, 1, Len(ss))

(***************************************************************************)
(* Lines, circles, rectangles (rendering/primitives.c)                     *)
(***************************************************************************)
\* the square stamp of draw_line: ty outer, tx inner, both -h..h
StampPoints(x, y, h) ==
  LET n == 2 * h + 1
  IN IF n <= 0 THEN <<>>
     ELSE [k \in 1..(n * n) |-> <<x + ((k - 1) % n) - h, y + ((k - 1) \div n) - h>>]

\* a walk that finishes one axis before it starts the other
RECURSIVE LineWalk_one_axis_at_a_time(_, _, _, _, _, _, _, _, _)
LineWalk_one_axis_at_a_time(x0, y0, x1, y1, dx, dy, sx, sy, err) == IF x0 = x1 /\ y0 = y1 THEN <<<<x0, y0>>>> ELSE IF x0 # x1 THEN <<<<x0, y0>>>> \o LineWalk_one_axis_at_a_time(x0 + sx, y0, x1, y1, dx, dy, sx, sy, err) ELSE <<<<x0, y0>>>> \o LineWalk_one_axis_at_a_time(x0, y0 + sy, x1, y1, dx, dy, sx, sy, err)

\* the Bresenham walk: the stamp centres from (x0,y0) to (x1,y1)
RECURSIVE LineWalk(_, _, _, _, _, _, _, _, _)
LineWalk(x0, y0, x1, y1, dx, dy, sx, sy, err) ==
  IF x0 = x1 /\ y0 = y1 THEN <<<<x0, y0>>>>
  ELSE LET e2 == 2 * err
           stepx == e2 > -dy
           stepy == e2 < dx
           err1 == IF stepx THEN err - dy ELSE err
           err2 == IF stepy THEN err1 + dx ELSE err1
       IN <<<<x0, y0>>>> \o LineWalk(IF stepx THEN x0 + sx ELSE x0,
                                     IF stepy THEN y0 + sy ELSE y0,
                                     x1, y1, dx, dy, sx, sy, err2)

LineCentres(x0, y0, x1, y1) ==
  LET dx == Abs(x1 - x0)
      dy == Abs(y1 - y0)
  IN LineWalk(x0, y0, x1, y1, dx, dy,
              IF x0 < x1 THEN 1 ELSE -1, IF y0 < y1 THEN 1 ELSE -1, dx - dy)

draw_line(x0, y0, x1, y1, thickness) ==
  LET half_thick == ToInt(thickness \div 2)
      cs == LineCentres(x0, y0, x1, y1)
  IN Concat([i \in 1..Len(cs) |-> StampPoints(cs[i][1], cs[i][2], half_thick)])

\* the offsets of a (2rx+1) x (2ry+1) bounding box around a centre
Box(rx, ry) == (-rx..rx) \X (-ry..ry)

\* the bounding-box scan around (cx,cy), y outer and x inner: the points
\* whose offset from the centre is in keep, in scan order
BoxScan(keep, cx, cy, rx, ry) ==
  LET n == 2 * rx + 1
      cells == [k \in 1..(n * (2 * ry + 1)) |-> <<((k - 1) % n) - rx, ((k - 1) \div n) - ry>>]
      Kept(p) == p \in keep
      kept == SelectSeq(cells, Kept)
  IN IF rx < 0 \/ ry < 0 THEN <<>>
     ELSE [k \in 1..Len(kept) |-> <<cx + kept[k][1], cy + kept[k][2]>>]

draw_filled_circle(cx, cy, radius) ==
  LET r == ToInt(radius)
  IN BoxScan({p \in Box(r, r) : p[1] * p[1] + p[2] * p[2] <= r * r}, cx, cy, r, r)

draw_circle_outline(cx, cy, radius, thickness) ==
  LET r_outer == ToInt(radius + thickness \div 2)
      r_in == ToInt(radius - thickness \div 2)
      r_inner == IF r_in < 0 THEN 0 ELSE r_in
  IN BoxScan({p \in Box(r_outer, r_outer) :
                /\ p[1] * p[1] + p[2] * p[2] >= r_inner * r_inner
                /\ p[1] * p[1] + p[2] * p[2] <= r_outer * r_outer},
             cx, cy, r_outer, r_outer)

draw_rect_filled(x, y, w, h) ==
  IF w <= 0 \/ h <= 0 THEN <<>>
  ELSE [k \in 1..(w * h) |-> <<x + ((k - 1) % w), y + ((k - 1) \div w)>>]

draw_rect_outline(x, y, w, h, thickness) ==
  LET t == ToInt(thickness)
  IN draw_rect_filled(x, y, w, t)
     \o draw_rect_filled(x, y + h - t, w, t)
     \o draw_rect_filled(x, y + t, t, h - 2 * t)
     \o draw_rect_filled(x + w - t, y + t, t, h - 2 * t)

(***************************************************************************)
(* Angles and trigonometry                                                 *)
(*   An angle argument is a float in degrees (thousandths).  sinf and cosf *)
(*   are tabulated: SinTable[h+1] is 10^6 * sinf(deg_to_radf(h / 2)) for   *)
(*   h = 0..180 half-degrees, Sin64Table[i+1] is 10^6 * sinf(i/64 * 2*pi)  *)
(*   for i = 0..16; the other quadrants follow by symmetry.  An angle is   *)
(*   taken to the nearest half-degree before the table is read.            *)
(***************************************************************************)
SinTable ==
  <<0, 8727, 17452, 26177, 34899, 43619, 52336, 61049, 69756, 78459,
    87156, 95846, 104528, 113203, 121869, 130526, 139173, 147809, 156434, 165048,
    173648, 182236, 190809, 199368, 207912, 216440, 224951, 233445, 241922, 250380,
    258819, 267238, 275637, 284015, 292372, 300706, 309017, 317305, 325568, 333807,
    342020, 350207, 358368, 366501, 374607, 382683, 390731, 398749, 406737, 414693,
    422618, 430511, 438371, 446198, 453990, 461749, 469472, 477159, 484810, 492424,
    500000, 507538, 515038, 522499, 529919, 537300, 544639, 551937, 559193, 566406,
    573576, 580703, 587785, 594823, 601815, 608761, 615662, 622515, 629320, 636078,
    642788, 649448, 656059, 662620, 669131, 675590, 681998, 688355, 694658, 700909,
    707107, 713250, 719340, 725374, 731354, 737277, 743145, 748956, 754710, 760406,
    766044, 771625, 777146, 782608, 788011, 793353, 798636, 803857, 809017, 814116,
    819152, 824126, 829038, 833886, 838671, 843391, 848048, 852640, 857167, 861629,
    866025, 870356, 874620, 878817, 882948, 887011, 891007, 894934, 898794, 902585,
    906308, 909961, 913545, 917060, 920505, 923880, 927184, 930418, 933580, 936672,
    939693, 942641, 945519, 948324, 951057, 953717, 956305, 958820, 961262, 963630,
    965926, 968148, 970296, 972370, 974370, 976296, 978148, 979925, 981627, 983255,
    984808, 986286, 987688, 989016, 990268, 991445, 992546, 993572, 994522, 995396,
    996195, 996917, 997564, 998135, 998630, 999048, 999391, 999657, 999848, 999962,
    1000000>>

Sin64Table ==
  <<0, 98017, 195090, 290285, 382683, 471397, 555570, 634393, 707107,
    773010, 831470, 881921, 923880, 956940, 980785, 995185, 1000000>>

\* sine of a table position p in a circle of 4*q positions (q = quarter turn)
QuadSin(T, q, p) ==
  LET n == p % (4 * q)
  IN IF n <= q THEN T[n + 1]
     ELSE IF n <= 2 * q THEN T[2 * q - n + 1]
     ELSE IF n <= 3 * q THEN -T[n - 2 * q + 1]
     ELSE -T[4 * q - n + 1]

\* sinf / cosf of deg_to_radf(a), a in thousandths of a degree: the table
\* value at a multiple of half a degree, linear interpolation between two
\* table values elsewhere
TableSin(a, shift) ==
  LET k == a \div 500
      f == a - 500 * k
      lo == QuadSin(SinTable, 180, k + shift)
      hi == QuadSin(SinTable, 180, k + shift + 1)
      v == lo * (500 - f) + hi * f
  IN IF f = 0 THEN lo ELSE IF v >= 0 THEN v \div 500 ELSE -((-v) \div 500)

\* the angles whose sine or cosine is one half in exact arithmetic and whose
\* sinf / cosf is the float just below one half
SinBelowHalf == {-570000, -510000, -210000, 210000, 510000, 570000}

CosBelowHalf == {-840000, -780000, -660000, -300000, -240000, -60000,
                 60000, 240000, 300000, 660000, 780000, 840000}

JustBelow(v) == IF v > 0 THEN v - 1 ELSE v + 1

SinDeg(a) == IF a \in SinBelowHalf THEN JustBelow(TableSin(a, 0)) ELSE TableSin(a, 0)

CosDeg(a) == IF a \in CosBelowHalf THEN JustBelow(TableSin(a, 180)) ELSE TableSin(a, 180)

\* (int)(radius * t) for a float radius and a tabulated sine or cosine t
TruncMul(r, t) ==
  LET ar == Abs(r)
      at == Abs(t)
      q == (ar * (at \div 1000) + (ar * (at % 1000)) \div 1000) \div 1000000
  IN IF (r < 0) = (t < 0) THEN q ELSE -q

\* compass_to_math_rad: math angle = 90 - compass angle (still in degrees
\* here; deg_to_radf is folded into SinDeg and CosDeg)
compass_to_math_rad(compass_deg) == 90000 - compass_deg

\* An angle code is 8 * degrees for an exact multiple of half a degree and
\* 4k + 2 for the open interval between half-degrees k and k + 1, so that
\* codes compare like the angles.  The float sums 90.0f - compass_deg,
\* degrees * (pi / 180) and +- 2*pi round; at a multiple of 45 degrees, where
\* a pixel direction can be exactly the wedge edge, the rounded edge lies
\* just below (RoundsBelow) or just above (RoundsAbove) the pixel's atan2f.
RoundsBelow == {225000, 315000, 405000, 450000, 495000, 540000, 630000, 675000, 765000, 810000}

RoundsAbove == {-225000, -270000, -315000, -450000, -495000, -540000, -630000}

\* the normalisation of a math angle to [0, 2*pi), as an angle code
NormCode(a) ==
  LET k == (a \div 500) % 720
  IN IF a % 500 # 0 THEN 4 * k + 2
     ELSE IF a \in RoundsBelow THEN 4 * k - 1
     ELSE IF a \in RoundsAbove THEN 4 * k + 1
     ELSE 4 * k

\* atan2f(dy, dx) for dx > 0, dy >= 0, as an angle code in [0, 720)
QuadrantCode(dx, dy) ==
  LET k == CHOOSE k \in 0..179 :
             /\ SinTable[k + 1] * dx <= SinTable[181 - k] * dy
             /\ SinTable[k + 2] * dx > SinTable[180 - k] * dy
  IN IF dy = 0 THEN 0
     ELSE IF dx = dy THEN 360
     ELSE 4 * k + 2

\* atan2f((float)(-y), (float)x), plus 2*pi when negative, as an angle code
PixelAngle(x, y) ==
  LET yy == -y
  IN IF x > 0 /\ yy >= 0 THEN QuadrantCode(x, yy)
     ELSE IF x = 0 /\ yy > 0 THEN 720
     ELSE IF x < 0 /\ yy >= 0 THEN 1440 - QuadrantCode(-x, yy)
     ELSE IF x < 0 /\ yy < 0 THEN 1440 + QuadrantCode(-x, -yy)
     ELSE IF x = 0 /\ yy < 0 THEN 2160
     ELSE IF x > 0 /\ yy < 0 THEN 2880 - QuadrantCode(x, -yy)
     ELSE 0

\* the wedge membership test of draw_wedge_filled / draw_ellipse_wedge_filled
InWedge(pixel_angle, start_rad, end_rad) ==
  LET wraps == end_rad < start_rad
  IN IF wraps THEN pixel_angle >= start_rad \/ pixel_angle <= end_rad
     ELSE pixel_angle >= end_rad /\ pixel_angle <= start_rad

\* the segment count of draw_arc / draw_ellipse_arc
ArcSegments(start_angle_deg, end_angle_deg, segments) ==
  LET auto == ToInt(Abs(end_angle_deg - start_angle_deg) \div 3)
  IN IF segments > 0 THEN segments
     ELSE IF auto < 4 THEN 4 ELSE IF auto > 120 THEN 120 ELSE auto

\* start + i * angle_step, angle_step = (end - start) / segments
ArcAngle(start_angle_deg, end_angle_deg, segs, i) ==
  LET d == i * (end_angle_deg - start_angle_deg)
  IN start_angle_deg + (IF d >= 0 THEN d \div segs ELSE -((-d) \div segs))

\* the point of an ellipse at a compass angle
EllipseX(cx, radius_x, angle) == cx + TruncMul(radius_x, CosDeg(compass_to_math_rad(angle)))

EllipseY(cy, radius_y, angle) == cy - TruncMul(radius_y, SinDeg(compass_to_math_rad(angle)))

draw_ellipse_arc(cx, cy, radius_x, radius_y, start_angle_deg, end_angle_deg, thickness, segments) ==
  LET segs == ArcSegments(start_angle_deg, end_angle_deg, segments)
      A(i) == ArcAngle(start_angle_deg, end_angle_deg, segs, i)
  IN Concat([i \in 1..segs |->
       draw_line(EllipseX(cx, radius_x, A(i - 1)), EllipseY(cy, radius_y, A(i - 1)),
                 EllipseX(cx, radius_x, A(i)), EllipseY(cy, radius_y, A(i)), thickness)])

draw_arc(cx, cy, radius, start_angle_deg, end_angle_deg, thickness, segments) ==
  draw_ellipse_arc(cx, cy, radius, radius, start_angle_deg, end_angle_deg, thickness, segments)

\* nx*nx + ny*ny > 1.0f with nx = x / radius_x, ny = y / radius_y, in
\* quarter pixels; a zero radius gives NaN, which compares false
OutsideEllipse(x, y, radius_x, radius_y) ==
  LET qx == radius_x \div 250
      qy == radius_y \div 250
  IN 16 * x * x * qy * qy + 16 * y * y * qx * qx > qx * qx * qy * qy

draw_ellipse_wedge_filled(cx, cy, radius_x, radius_y, start_angle_deg, end_angle_deg) ==
  LET lo == IF start_angle_deg > end_angle_deg THEN end_angle_deg ELSE start_angle_deg
      hi == IF start_angle_deg > end_angle_deg THEN start_angle_deg ELSE end_angle_deg
      start_rad == NormCode(compass_to_math_rad(lo))
      end_rad == NormCode(compass_to_math_rad(hi))
      rx == ToInt(radius_x)
      ry == ToInt(radius_y)
  IN BoxScan({p \in Box(rx, ry) :
                /\ ~OutsideEllipse(p[1], p[2], radius_x, radius_y)
                /\ InWedge(PixelAngle(p[1], p[2]), start_rad, end_rad)},
             cx, cy, rx, ry)

\* a draw_wedge_filled that takes its angles in the order given
draw_wedge_filled_unswapped(cx, cy, radius, start_angle_deg, end_angle_deg) ==
  LET start_rad == NormCode(compass_to_math_rad(start_angle_deg))
      end_rad == NormCode(compass_to_math_rad(end_angle_deg))
      r == ToInt(radius)
  IN BoxScan({p \in Box(r, r) :
                /\ ~((p[1] * p[1] + p[2] * p[2]) * 10000 > (radius \div 10) * (radius \div 10))
                /\ InWedge(PixelAngle(p[1], p[2]), start_rad, end_rad)},
             cx, cy, r, r)

draw_wedge_filled(cx, cy, radius, start_angle_deg, end_angle_deg) ==
  LET lo == IF start_angle_deg > end_angle_deg THEN end_angle_deg ELSE start_angle_deg
      hi == IF start_angle_deg > end_angle_deg THEN start_angle_deg ELSE end_angle_deg
      start_rad == NormCode(compass_to_math_rad(lo))
      end_rad == NormCode(compass_to_math_rad(hi))
      r == ToInt(radius)
      \* dist_sq > radius * radius, in hundredths of a pixel
  IN BoxScan({p \in Box(r, r) :
                /\ ~((p[1] * p[1] + p[2] * p[2]) * 10000 > (radius \div 10) * (radius \div 10))
                /\ InWedge(PixelAngle(p[1], p[2]), start_rad, end_rad)},
             cx, cy, r, r)

draw_ellipse_wedge_outline(cx, cy, radius_x, radius_y, start_angle_deg, end_angle_deg, thickness) ==
  draw_line(cx, cy, EllipseX(cx, radius_x, start_angle_deg),
            EllipseY(cy, radius_y, start_angle_deg), thickness)
  \o draw_line(cx, cy, EllipseX(cx, radius_x, end_angle_deg),
               EllipseY(cy, radius_y, end_angle_deg), thickness)
  \o draw_ellipse_arc(cx, cy, radius_x, radius_y, start_angle_deg, end_angle_deg, thickness, 0)

draw_wedge_outline(cx, cy, radius, start_angle_deg, end_angle_deg, thickness) ==
  draw_line(cx, cy, EllipseX(cx, radius, start_angle_deg),
            EllipseY(cy, radius, start_angle_deg), thickness)
  \o draw_line(cx, cy, EllipseX(cx, radius, end_angle_deg),
               EllipseY(cy, radius, end_angle_deg), thickness)
  \o draw_arc(cx, cy, radius, start_angle_deg, end_angle_deg, thickness, 0)

\* 64 line segments at t = i/64 * 2*pi; y grows downward, no sign flip here
draw_ellipse_outline(cx, cy, radius_x, radius_y, thickness) ==
  LET X(i) == cx + TruncMul(radius_x, QuadSin(Sin64Table, 16, i + 16))
      Y(i) == cy + TruncMul(radius_y, QuadSin(Sin64Table, 16, i))
  IN Concat([i \in 1..64 |-> draw_line(X(i - 1), Y(i - 1), X(i), Y(i), thickness)])

(***************************************************************************)
(* Colours used by the model's configurations (0xAABBGGRR)                  *)
(***************************************************************************)
Opaque == <<255, 0, 0, 255>>

HalfAlpha == <<128, 0, 255, 0>>

Background == <<255, 255, 0, 0>>

White == <<255, 255, 255, 255>>

(***************************************************************************)
(* Telemetry bytes (osd_context_t.proto_buffer) and the decoded record     *)
(***************************************************************************)
\* sizeof(g_osd_ctx.proto_buffer)
ProtoBufferSize == 4096

\* a byte array is kept as runs <<byte, count>> with count > 0 and adjacent
\* runs holding different bytes
RECURSIVE RLen(_)
RLen(r) == IF r = <<>> THEN 0 ELSE r[1][2] + RLen(Tail(r))

RECURSIVE RTake(_, _)
RTake(r, n) ==
  IF n <= 0 \/ r = <<>> THEN <<>>
  ELSE IF r[1][2] <= n THEN <<r[1]>> \o RTake(Tail(r), n - r[1][2])
  ELSE <<<<r[1][1], n>>>>

RECURSIVE RDrop(_, _)
RDrop(r, n) ==
  IF n <= 0 \/ r = <<>> THEN r
  ELSE IF r[1][2] <= n THEN RDrop(Tail(r), n - r[1][2])
  ELSE <<<<r[1][1], r[1][2] - n>>>> \o Tail(r)

RECURSIVE RNorm(_)
RNorm(r) ==
  IF Len(r) < 2 THEN r
  ELSE IF r[1][1] = r[2][1]
       THEN RNorm(<<<<r[1][1], r[1][2] + r[2][2]>>>> \o Tail(Tail(r)))
       ELSE <<r[1]>> \o RNorm(Tail(r))

\* the byte at index i, 0 <= i < RLen(r)
RECURSIVE RByte(_, _)
RByte(r, i) == IF i < r[1][2] THEN r[1][1] ELSE RByte(Tail(r), i - r[1][2])

\* the byte array holding the bytes of s, followed by pad zero bytes
Bytes(s, pad) ==
  RNorm([k \in 1..Len(s) |-> <<s[k], 1>>] \o (IF pad > 0 THEN <<<<0, pad>>>> ELSE <<>>))

\* memcpy(dst, src, n): the first n bytes of dst replaced by those of src
memcpy(dst, src, n) == RNorm(RTake(src, n) \o RDrop(dst, n))

\* a pointer is <<>> (NULL) or <<v>>, pointing at v
NULL == <<>>

\* ser_JonGUIState_init_zero, with the fields the widgets read
ZeroRecOsd ==
  [heat_osd_enabled |-> FALSE,
   day_crosshair_offset_horizontal |-> 0, day_crosshair_offset_vertical |-> 0,
   heat_crosshair_offset_horizontal |-> 0, heat_crosshair_offset_vertical |-> 0]

ZeroState ==
  [rec_osd |-> ZeroRecOsd,
   has_rotary |-> FALSE,
   rotary |-> [azimuth_speed |-> 0, elevation_speed |-> 0, is_moving |-> FALSE],
   has_compass |-> FALSE,
   compass |-> [azimuth |-> 0],
   has_camera_day |-> FALSE,
   camera_day |-> [horizontal_fov_degrees |-> 0],
   has_time |-> FALSE,
   time |-> [timestamp |-> 0],
   has_actual_space_time |-> FALSE,
   actual_space_time |-> [latitude |-> 0, longitude |-> 0, altitude |-> 0,
                          timestamp |-> 0]]

\* a byte read as int8_t
SignedByte(b) == IF b < 128 THEN b ELSE b - 256

\* the decoder is an external service; the model's wire format is a list of
\* <<field, value>> byte pairs: 1/2 day crosshair offset h/v, 3 heat OSD flag,
\* 4/5 heat crosshair offset h/v, 6 rotary (bit 0 is_moving, bits 1-2 and 3-4
\* the azimuth and elevation speed in halves, -0.5 .. 1.0), 7 compass azimuth
\* in degrees, 8 day camera field of view in degrees, 9 timestamp
SetField(st, field, v) ==
  CASE field = 1 -> [st EXCEPT !.rec_osd.day_crosshair_offset_horizontal = SignedByte(v)]
    [] field = 2 -> [st EXCEPT !.rec_osd.day_crosshair_offset_vertical = SignedByte(v)]
    [] field = 3 -> [st EXCEPT !.rec_osd.heat_osd_enabled = (v # 0)]
    [] field = 4 -> [st EXCEPT !.rec_osd.heat_crosshair_offset_horizontal = SignedByte(v)]
    [] field = 5 -> [st EXCEPT !.rec_osd.heat_crosshair_offset_vertical = SignedByte(v)]
    [] field = 6 -> [st EXCEPT !.has_rotary = TRUE,
                               !.rotary = [azimuth_speed |-> (((v \div 2) % 4) - 1) * 500,
                                           elevation_speed |-> (((v \div 8) % 4) - 1) * 500,
                                           is_moving |-> (v % 2 = 1)]]
    [] field = 7 -> [st EXCEPT !.has_compass = TRUE, !.compass.azimuth = Fl(v)]
    [] field = 8 -> [st EXCEPT !.has_camera_day = TRUE,
                               !.camera_day.horizontal_fov_degrees = Fl(v)]
    [] OTHER -> [st EXCEPT !.has_time = TRUE, !.time.timestamp = v]

\* pb_decode over the first size bytes of buf: a pointer to the record, or
\* NULL when the bytes are malformed (an unknown field or a cut-off pair); a
\* zero field byte ends the message
RECURSIVE DecodeFields(_, _, _, _)
DecodeFields(buf, size, i, st) ==
  IF i >= size THEN <<st>>
  ELSE LET field == RByte(buf, i)
       IN IF field = 0 THEN <<st>>
          ELSE IF field > 9 \/ i + 1 >= size THEN NULL
          ELSE DecodeFields(buf, size, i + 2, SetField(st, field, RByte(buf, i + 1)))

pb_decode(buf, size) == DecodeFields(buf, size, 0, ZeroState)

\* decode_proto_state and the pointer wasm_osd_render hands to the widgets:
\* the decoded record, or NULL when nothing valid is stored or decoding fails
decode_proto_state(c) ==
  IF ~c.proto_valid \/ c.proto_size = 0 THEN NULL
  ELSE pb_decode(c.proto_buffer, c.proto_size)

(***************************************************************************)
(* State accessors (osd_state.c): every one accepts a NULL record          *)
(***************************************************************************)
osd_state_get_orientation(state) ==
  IF state = NULL \/ ~state[1].has_compass THEN 0 ELSE state[1].compass.azimuth

osd_state_get_camera_fov_day(state) ==
  IF state = NULL \/ ~state[1].has_camera_day THEN 0
  ELSE state[1].camera_day.horizontal_fov_degrees

osd_state_get_timestamp(state) ==
  IF state = NULL \/ ~state[1].has_time THEN 0 ELSE state[1].time.timestamp

\* osd_state_get_gps with a non-NULL pos: its return value and *pos
osd_state_get_gps(state) ==
  IF state = NULL \/ ~state[1].has_actual_space_time
  THEN [ret |-> FALSE,
        pos |-> [valid |-> FALSE, latitude |-> 0, longitude |-> 0, altitude |-> 0,
                 timestamp |-> 0]]
  ELSE [ret |-> TRUE,
        pos |-> [valid |-> TRUE,
                 latitude |-> state[1].actual_space_time.latitude,
                 longitude |-> state[1].actual_space_time.longitude,
                 altitude |-> state[1].actual_space_time.altitude,
                 timestamp |-> state[1].actual_space_time.timestamp]]

(***************************************************************************)
(* Configuration (config/osd_config.h) and the context (osd_context_t)     *)
(***************************************************************************)
RADAR_COMPASS_MAX_RINGS == 5

Element(enabled, color, thickness) ==
  [enabled |-> enabled, color |-> color, thickness |-> thickness]

CrosshairConfig(enabled, orientation) ==
  [enabled |-> enabled, orientation |-> orientation,
   center_dot |-> Element(TRUE, Opaque, 1000), center_dot_radius |-> 0,
   cross |-> Element(TRUE, White, 1000), cross_length |-> 1000, cross_gap |-> 1000,
   circle |-> Element(TRUE, HalfAlpha, 1000), circle_radius |-> 2000]

TextConfig(enabled, x, y, font_path) ==
  [enabled |-> enabled, color |-> White, font_size |-> 1,
   pos_x |-> x, pos_y |-> y, font_path |-> font_path]

SpeedConfig(enabled, font_path) ==
  [enabled |-> enabled, color |-> White, font_size |-> 2, threshold |-> 50,
   max_speed_azimuth |-> 35000, max_speed_elevation |-> 35000,
   font_path |-> font_path]

RadarCompassConfig(enabled, num_rings) ==
  [enabled |-> enabled, position_x |-> 1, position_y |-> 2, size |-> 4,
   num_rings |-> num_rings, ring_distances |-> <<1000, 2000, 0, 0, 0>>,
   ring_color |-> White, ring_thickness |-> 1000,
   show_ring_labels |-> TRUE, ring_label_font_size |-> 1,
   ring_label_font_path |-> "", cardinal_color |-> White,
   cardinal_font_size |-> 1, cardinal_font_path |-> "",
   fov_fill_color |-> HalfAlpha, fov_outline_color |-> Opaque,
   fov_outline_thickness |-> 1000]

\* celestial_indicators_config_t; the threshold in millidegrees
CelestialIndicators(enabled, show_sun, show_moon, sun_svg_path, moon_svg_path) ==
  [enabled |-> enabled, show_sun |-> show_sun, show_moon |-> show_moon,
   indicator_scale |-> 1000, visibility_threshold |-> -5000,
   sun_svg_path |-> sun_svg_path, moon_svg_path |-> moon_svg_path]

CelestialConfig == CelestialIndicators(FALSE, FALSE, FALSE, "", "")

Config(crosshair, timestamp, speed, variant, compass) ==
  [crosshair |-> crosshair, timestamp |-> timestamp, speed_indicators |-> speed,
   variant_info |-> variant, radar_compass |-> compass,
   celestial_indicators |-> CelestialConfig]

\* static osd_context_t g_osd_ctx = { 0 }
ZeroConfig ==
  Config([CrosshairConfig(FALSE, "vertical") EXCEPT
            !.center_dot = Element(FALSE, Transparent, 0),
            !.cross = Element(FALSE, Transparent, 0), !.cross_length = 0, !.cross_gap = 0,
            !.circle = Element(FALSE, Transparent, 0), !.circle_radius = 0],
         [TextConfig(FALSE, 0, 0, "") EXCEPT !.color = Transparent, !.font_size = 0],
         [SpeedConfig(FALSE, "") EXCEPT !.color = Transparent, !.font_size = 0,
            !.threshold = 0, !.max_speed_azimuth = 0, !.max_speed_elevation = 0],
         [TextConfig(FALSE, 0, 0, "") EXCEPT !.color = Transparent, !.font_size = 0],
         [enabled |-> FALSE, position_x |-> 0, position_y |-> 0, size |-> 0,
          num_rings |-> 0, ring_distances |-> <<0, 0, 0, 0, 0>>,
          ring_color |-> Transparent, ring_thickness |-> 0,
          show_ring_labels |-> FALSE, ring_label_font_size |-> 0,
          ring_label_font_path |-> "", cardinal_color |-> Transparent,
          cardinal_font_size |-> 0, cardinal_font_path |-> "",
          fov_fill_color |-> Transparent, fov_outline_color |-> Transparent,
          fov_outline_thickness |-> 0])

ZeroContext ==
  [framebuffer |-> FALSE, width |-> 0, height |-> 0,
   config |-> ZeroConfig,
   font_timestamp |-> FALSE, font_speed_indicators |-> FALSE,
   font_variant_info |-> FALSE,
   proto_buffer |-> <<<<0, ProtoBufferSize>>>>, proto_size |-> 0,
   proto_valid |-> FALSE,
   radar_compass_enabled |-> FALSE, radar_compass_x |-> 0, radar_compass_y |-> 0,
   radar_compass_size |-> 0, radar_compass_num_rings |-> 0,
   radar_compass_ring_distances |-> <<0, 0, 0, 0, 0>>,
   radar_compass_ring_color |-> Transparent, radar_compass_ring_thickness |-> 0,
   radar_compass_show_ring_labels |-> FALSE,
   radar_compass_ring_label_font_size |-> 0,
   font_radar_compass_ring_labels |-> FALSE,
   radar_compass_cardinal_color |-> Transparent,
   radar_compass_cardinal_font_size |-> 0,
   font_radar_compass_cardinals |-> FALSE,
   radar_compass_fov_fill_color |-> Transparent,
   radar_compass_fov_outline_color |-> Transparent,
   radar_compass_fov_outline_thickness |-> 0,
   celestial_enabled |-> FALSE,
   celestial_show_sun |-> FALSE, celestial_show_moon |-> FALSE,
   celestial_indicator_scale |-> 0, celestial_visibility_threshold |-> 0,
   celestial_sun_svg |-> <<>>, celestial_moon_svg |-> <<>>,
   needs_render |-> FALSE, frame_count |-> 0]

\* no entry point has run: the init calls, successful updates and
\* non-skipped renders so far, the bytes of the most recent successful
\* update, whether the last wasm_osd_init succeeded with no
\* wasm_osd_destroy since, the widget calls so far, and how many entry
\* point calls the run may hold
NoCalls ==
  [init |-> 0, update |-> 0, render |-> 0, latest |-> <<>>, ready |-> FALSE,
   widget |-> 0, limit |-> 0]

(***************************************************************************)
(* Text (rendering/text.h): glyph rasterisation is an external service;    *)
(* a text of n characters covers n columns of font_size rows from (x,y),   *)
(* and nothing when the font holds no data                                  *)
(***************************************************************************)
text_measure_width(font, chars, font_size) == IF font THEN chars ELSE 0

text_render_with_outline(m, font, chars, x, y, color, font_size) ==
  IF font THEN Blit(m, draw_rect_filled(x, y, chars, font_size), color) ELSE m

\* the number of characters snprintf("%.3f") prints for |v|
FormatChars(v) ==
  LET n == Abs(v) \div 1000
  IN IF n < 10 THEN 5 ELSE IF n < 100 THEN 6 ELSE 7

\* what a widget's render step hands back: the framebuffer memory and its
\* return value
Drawn(m, rendered) == [fb |-> m, rendered |-> rendered]

(***************************************************************************)
(* Crosshair widget (widgets/crosshair.c)                                   *)
(***************************************************************************)
SPEED_RADIUS_HORIZONTAL == 110

SPEED_RADIUS_VERTICAL == 90

SPEED_INDICATOR_CLEAR_WIDTH == 100

SPEED_INDICATOR_CLEAR_HEIGHT_PADDING == 10

crosshair_render_center_dot(m, config, cx, cy) ==
  IF ~config.center_dot.enabled THEN m
  ELSE Blit(m, draw_filled_circle(cx, cy, config.center_dot_radius),
            config.center_dot.color)

crosshair_render_cross(m, config, cx, cy) ==
  LET gap == config.cross_gap
      length == config.cross_length
      color == config.cross.color
      thickness == config.cross.thickness
      diag_gap == FMul(gap, 707)
      diag_len == FMul(length, 707)
      X(v) == ToInt(Fl(cx) + v)
      Y(v) == ToInt(Fl(cy) + v)
      Line(mm, x0, y0, x1, y1) == Blit(mm, draw_line(x0, y0, x1, y1, thickness), color)
  IN IF ~config.cross.enabled THEN m
     ELSE IF config.orientation = "vertical"
     THEN Line(Line(Line(Line(m,
            cx, Y(-gap), cx, Y(-gap - length)),
            cx, Y(gap), cx, Y(gap + length)),
            X(-gap), cy, X(-gap - length), cy),
            X(gap), cy, X(gap + length), cy)
     ELSE Line(Line(Line(Line(m,
            X(diag_gap), Y(-diag_gap), X(diag_gap + diag_len), Y(-diag_gap - diag_len)),
            X(diag_gap), Y(diag_gap), X(diag_gap + diag_len), Y(diag_gap + diag_len)),
            X(-diag_gap), Y(diag_gap), X(-diag_gap - diag_len), Y(diag_gap + diag_len)),
            X(-diag_gap), Y(-diag_gap), X(-diag_gap - diag_len), Y(-diag_gap - diag_len))

crosshair_render_circle(m, config, cx, cy) ==
  IF ~config.circle.enabled THEN m
  ELSE Blit(m, draw_circle_outline(cx, cy, config.circle_radius, config.circle.thickness),
            config.circle.color)

\* four draw_rect_filled calls with colour 0x00000000
clear_speed_indicators(m, cx, cy, font_size) ==
  LET clear_width == SPEED_INDICATOR_CLEAR_WIDTH
      clear_height == font_size + SPEED_INDICATOR_CLEAR_HEIGHT_PADDING
      Clear(mm, x, y) == Blit(mm, draw_rect_filled(x, y, clear_width, clear_height), Transparent)
  IN Clear(Clear(Clear(Clear(m,
       cx - SPEED_RADIUS_HORIZONTAL - (clear_width \div 2), cy - (clear_height \div 2)),
       cx + SPEED_RADIUS_HORIZONTAL - (clear_width \div 2), cy - (clear_height \div 2)),
       cx - (clear_width \div 2), cy - SPEED_RADIUS_VERTICAL - (clear_height \div 2)),
       cx - (clear_width \div 2), cy + SPEED_RADIUS_VERTICAL - (clear_height \div 2))

render_azimuth_speed(m, font, cx, cy, speed, color, font_size) ==
  LET chars == FormatChars(speed)
      text_width == text_measure_width(font, chars, font_size)
      text_center_x == IF speed < 0 THEN cx - SPEED_RADIUS_HORIZONTAL
                       ELSE cx + SPEED_RADIUS_HORIZONTAL
  IN text_render_with_outline(m, font, chars, text_center_x - (text_width \div 2),
                              cy - (font_size \div 2), color, font_size)

render_elevation_speed(m, font, cx, cy, speed, color, font_size) ==
  LET chars == FormatChars(speed)
      text_width == text_measure_width(font, chars, font_size)
      text_center_y == IF speed < 0 THEN cy + SPEED_RADIUS_VERTICAL
                       ELSE cy - SPEED_RADIUS_VERTICAL
  IN text_render_with_outline(m, font, chars, cx - (text_width \div 2),
                              text_center_y - (font_size \div 2), color, font_size)

render_speed_indicators(c, m, pb_state, cx, cy) ==
  IF ~c.config.speed_indicators.enabled THEN m
  ELSE IF pb_state = NULL \/ ~pb_state[1].has_rotary THEN m
  ELSE LET cfg == c.config.speed_indicators
           az == pb_state[1].rotary.azimuth_speed
           el == pb_state[1].rotary.elevation_speed
           show_az == Abs(az) > cfg.threshold
           show_el == Abs(el) > cfg.threshold
           m1 == IF show_az
                 THEN render_azimuth_speed(m, c.font_speed_indicators, cx, cy,
                                           FMul(az, cfg.max_speed_azimuth),
                                           cfg.color, cfg.font_size)
                 ELSE m
       IN IF ~pb_state[1].rotary.is_moving \/ (~show_az /\ ~show_el)
          THEN clear_speed_indicators(m, cx, cy, cfg.font_size)
          ELSE IF show_el
          THEN render_elevation_speed(m1, c.font_speed_indicators, cx, cy,
                                      FMul(el, cfg.max_speed_elevation),
                                      cfg.color, cfg.font_size)
          ELSE m1

\* the centre crosshair_render computes from the rec_osd fields it reads
CrosshairCentre(c, rec_osd) ==
  LET offset_x == IF rec_osd.heat_osd_enabled
                  THEN rec_osd.heat_crosshair_offset_horizontal
                  ELSE rec_osd.day_crosshair_offset_horizontal
      offset_y == IF rec_osd.heat_osd_enabled
                  THEN rec_osd.heat_crosshair_offset_vertical
                  ELSE rec_osd.day_crosshair_offset_vertical
  IN <<c.width \div 2 + offset_x, c.height \div 2 + offset_y>>

\* crosshair_render reads pb_state->rec_osd without testing pb_state;
\* rec_osd is what those reads returned
crosshair_render(c, m, pb_state, rec_osd) ==
  IF ~c.config.crosshair.enabled THEN Drawn(m, FALSE)
  ELSE LET centre == CrosshairCentre(c, rec_osd)
           cx == centre[1]
           cy == centre[2]
           m1 == crosshair_render_circle(m, c.config.crosshair, cx, cy)
           m2 == crosshair_render_cross(m1, c.config.crosshair, cx, cy)
           m3 == crosshair_render_center_dot(m2, c.config.crosshair, cx, cy)
       IN Drawn(render_speed_indicators(c, m3, pb_state, cx, cy), TRUE)

(***************************************************************************)
(* Timestamp widget (widgets/timestamp.h): draws the record's time as text *)
(***************************************************************************)
TimestampChars == 8

timestamp_render(c, m, state) ==
  IF ~c.config.timestamp.enabled THEN Drawn(m, FALSE)
  ELSE Drawn(text_render_with_outline(m, c.font_timestamp, TimestampChars,
                                      c.config.timestamp.pos_x, c.config.timestamp.pos_y,
                                      c.config.timestamp.color,
                                      c.config.timestamp.font_size), TRUE)

(***************************************************************************)
(* Variant info widget (widgets/variant_info.c)                             *)
(***************************************************************************)
VARIANT_INFO_LINE_SPACING == 4

\* the header, the 17 "key: value" items and the footer
VariantInfoItems == 17

\* characters of one line of the widget
VariantInfoChars == 16

variant_info_render(c, m, state) ==
  LET cfg == c.config.variant_info
      line_height == cfg.font_size + VARIANT_INFO_LINE_SPACING
      LineY(i) == IF i = 0 THEN cfg.pos_y
                  ELSE cfg.pos_y + line_height + VARIANT_INFO_LINE_SPACING
                       + (i - 1) * line_height
      pts == Concat([i \in 1..(VariantInfoItems + 2) |->
               draw_rect_filled(cfg.pos_x, LineY(i - 1), VariantInfoChars, cfg.font_size)])
  IN IF ~cfg.enabled THEN Drawn(m, FALSE)
     ELSE Drawn(IF c.font_variant_info THEN Blit(m, pts, cfg.color) ELSE m, TRUE)

(***************************************************************************)
(* Radar compass widget (widgets/radar_compass.c)                           *)
(***************************************************************************)
\* float quotient of two fixed-point values
FDiv(a, b) == LET p == a * 1000 IN IF (p >= 0) = (b > 0) THEN Abs(p) \div Abs(b) ELSE -(Abs(p) \div Abs(b))

PERSPECTIVE_SCALE == 500

\* font_load: the font holds data afterwards exactly when its file loads
font_load(path, loadable) == path \in loadable

\* the icon files of the celestial markers and the colour each one paints
SunSvg == "sun.svg"

MoonSvg == "moon.svg"

SvgColor(path) == IF path = SunSvg THEN <<255, 0, 255, 255>> ELSE <<255, 255, 128, 128>>

\* svg_load: the resource's image afterwards, <<>> for none
svg_load(path, loadable) == IF path \in loadable THEN <<SvgColor(path)>> ELSE <<>>

\* a ring count taken as it comes
ClampRings_unclamped(n) == n

\* a ring count capped at the size of the ring_distances arrays
ClampRings(n) == IF n > RADAR_COMPASS_MAX_RINGS THEN RADAR_COMPASS_MAX_RINGS ELSE n

\* the "distances" member of the JSON: is_array is false when it is missing
\* or no array; an item is <<number>>, or <<>> for an item that is no number
Distances(is_array, items) == [is_array |-> is_array, items |-> items]

\* parse_radar_compass_config, the rings' distances: the config afterwards
parse_ring_distances(config, distances) ==
  LET n == ClampRings(Len(distances.items))
  IN IF distances.is_array
     THEN [config EXCEPT
             !.num_rings = n,
             !.ring_distances =
                [i \in 1..RADAR_COMPASS_MAX_RINGS |->
                   IF i <= n /\ distances.items[i] # <<>>
                   THEN distances.items[i][1] ELSE @[i]]]
     ELSE [config EXCEPT
             !.num_rings = 3,
             !.ring_distances = [i \in 1..RADAR_COMPASS_MAX_RINGS |->
                                   IF i <= 3 THEN <<Fl(1), Fl(5), Fl(20)>>[i] ELSE @[i]]]

\* the indices of config->ring_distances parse_radar_compass_config writes
ParseRingAccesses(distances) ==
  IF distances.is_array THEN 0..(ClampRings(Len(distances.items)) - 1) ELSE {0, 1, 2}

\* the indices radar_compass_init reads from config->ring_distances and
\* writes to ctx->radar_compass_ring_distances
InitRingAccesses(config) == 0..(ClampRings(config.num_rings) - 1)

\* the indices draw_rings and draw_ring_labels read: [0] for the first
\* maximum, 1..n-1 in the search, 0..n-1 in the drawing loop
DrawRingsAccesses(c) ==
  IF c.radar_compass_num_rings <= 0 THEN {}
  ELSE {0} \cup 1..(c.radar_compass_num_rings - 1) \cup 0..(c.radar_compass_num_rings - 1)

DrawRingLabelsAccesses(c) ==
  IF ~c.radar_compass_show_ring_labels THEN {}
  ELSE IF c.radar_compass_num_rings <= 0 THEN {}
  ELSE IF ~c.font_radar_compass_ring_labels THEN {}
  ELSE {0} \cup 1..(c.radar_compass_num_rings - 1) \cup 0..(c.radar_compass_num_rings - 1)

\* the first n ring distances copied from the configuration
CopyRings(old, new, n) ==
  [i \in 1..RADAR_COMPASS_MAX_RINGS |-> IF i <= n THEN new[i] ELSE old[i]]

\* radar_compass_init with non-NULL ctx, config and celestial_config: the
\* context afterwards; a font that fails to load is only logged
radar_compass_init(c, config, celestial_config, loadable) ==
  LET n == ClampRings(config.num_rings)
  IN [c EXCEPT
        !.radar_compass_enabled = config.enabled,
        !.radar_compass_x = config.position_x,
        !.radar_compass_y = config.position_y,
        !.radar_compass_size = config.size,
        !.radar_compass_num_rings = n,
        !.radar_compass_ring_distances = CopyRings(@, config.ring_distances, n),
        !.radar_compass_ring_color = config.ring_color,
        !.radar_compass_ring_thickness = config.ring_thickness,
        !.radar_compass_show_ring_labels = config.show_ring_labels,
        !.radar_compass_ring_label_font_size = config.ring_label_font_size,
        !.radar_compass_cardinal_color = config.cardinal_color,
        !.radar_compass_cardinal_font_size = config.cardinal_font_size,
        !.radar_compass_fov_fill_color = config.fov_fill_color,
        !.radar_compass_fov_outline_color = config.fov_outline_color,
        !.radar_compass_fov_outline_thickness = config.fov_outline_thickness,
        !.font_radar_compass_ring_labels =
           IF config.ring_label_font_path # ""
           THEN font_load(config.ring_label_font_path, loadable) ELSE @,
        !.font_radar_compass_cardinals =
           IF config.cardinal_font_path # ""
           THEN font_load(config.cardinal_font_path, loadable) ELSE @,
        !.celestial_enabled = celestial_config.enabled,
        !.celestial_show_sun = celestial_config.show_sun,
        !.celestial_show_moon = celestial_config.show_moon,
        !.celestial_indicator_scale = celestial_config.indicator_scale,
        !.celestial_visibility_threshold = celestial_config.visibility_threshold,
        !.celestial_sun_svg =
           IF celestial_config.sun_svg_path # ""
           THEN svg_load(celestial_config.sun_svg_path, loadable) ELSE @,
        !.celestial_moon_svg =
           IF celestial_config.moon_svg_path # ""
           THEN svg_load(celestial_config.moon_svg_path, loadable) ELSE @]

\* the last of the first n ring distances taken for the largest
MaxDistance_last(d, n) == d[n]

\* the largest of the first n ring distances
RECURSIVE MaxDistance(_, _)
MaxDistance(d, n) ==
  IF n = 1 THEN d[1]
  ELSE LET rest == MaxDistance(d, n - 1) IN IF d[n] > rest THEN d[n] ELSE rest

\* the radii <<ring_rx, ring_ry>> draw_rings gives ring i
RingRadii(c, radius_x, radius_y, i) ==
  LET scale == FDiv(c.radar_compass_ring_distances[i],
                    MaxDistance(c.radar_compass_ring_distances,
                                c.radar_compass_num_rings))
  IN <<FMul(radius_x, scale), FMul(radius_y, scale)>>

RECURSIVE DrawRingsFrom(_, _, _, _, _, _, _)
DrawRingsFrom(m, c, cx, cy, radius_x, radius_y, i) ==
  IF i > c.radar_compass_num_rings THEN m
  ELSE LET radii == RingRadii(c, radius_x, radius_y, i)
           ring == draw_ellipse_outline(cx, cy, radii[1], radii[2],
                                        c.radar_compass_ring_thickness)
       IN DrawRingsFrom(Blit(m, ring, c.radar_compass_ring_color),
                        c, cx, cy, radius_x, radius_y, i + 1)

draw_rings(m, c, cx, cy, radius_x, radius_y) ==
  IF c.radar_compass_num_rings <= 0 THEN m
  ELSE DrawRingsFrom(m, c, cx, cy, radius_x, radius_y, 1)

\* characters of a ring label: "%.0fkm" from 1 km, "%.0fm" below
RingLabelChars(distance) ==
  IF distance >= 1000 THEN FormatChars(distance) - 2
  ELSE FormatChars(distance * 1000) - 3

RECURSIVE DrawRingLabelsFrom(_, _, _, _, _, _, _)
DrawRingLabelsFrom(m, c, cx, cy, radius_x, radius_y, i) ==
  IF i > c.radar_compass_num_rings THEN m
  ELSE LET distance == c.radar_compass_ring_distances[i]
           scale == FDiv(distance, MaxDistance(c.radar_compass_ring_distances,
                                               c.radar_compass_num_rings))
           label_x == cx + TruncMul(FMul(radius_x, scale), SinDeg(90000))
           label_y == cy - TruncMul(FMul(radius_y, scale), CosDeg(90000))
           font == c.font_radar_compass_ring_labels
           size == c.radar_compass_ring_label_font_size
           chars == RingLabelChars(distance)
           text_width == text_measure_width(font, chars, size)
       IN DrawRingLabelsFrom(
            text_render_with_outline(m, font, chars, label_x - (text_width \div 2) + 5,
                                     label_y - (size \div 2),
                                     c.radar_compass_ring_color, size),
            c, cx, cy, radius_x, radius_y, i + 1)

draw_ring_labels(m, c, cx, cy, radius_x, radius_y) ==
  IF ~c.radar_compass_show_ring_labels THEN m
  ELSE IF c.radar_compass_num_rings <= 0 THEN m
  ELSE IF ~c.font_radar_compass_ring_labels THEN m
  ELSE DrawRingLabelsFrom(m, c, cx, cy, radius_x, radius_y, 1)

\* labels that stay where they are when the platform turns
CardinalAnchor_unrotated(cx, cy, radius_x, radius_y, rotation_deg, i) == <<cx + TruncMul(FMul(radius_x, 850), SinDeg((i - 1) * 90000)), cy - TruncMul(FMul(radius_y, 850), CosDeg((i - 1) * 90000))>>

\* <<label_x, label_y>> of the cardinal i (1 = N, 2 = E, 3 = S, 4 = W)
CardinalAnchor(cx, cy, radius_x, radius_y, rotation_deg, i) ==
  LET angle_deg == (i - 1) * 90000 + rotation_deg
  IN <<cx + TruncMul(FMul(radius_x, 850), SinDeg(angle_deg)),
       cy - TruncMul(FMul(radius_y, 850), CosDeg(angle_deg))>>

RECURSIVE DrawCardinalsFrom(_, _, _, _, _, _, _, _)
DrawCardinalsFrom(m, c, cx, cy, radius_x, radius_y, rotation_deg, i) ==
  IF i > 4 THEN m
  ELSE LET label_x == CardinalAnchor(cx, cy, radius_x, radius_y, rotation_deg, i)[1]
           label_y == CardinalAnchor(cx, cy, radius_x, radius_y, rotation_deg, i)[2]
           font == c.font_radar_compass_cardinals
           size == c.radar_compass_cardinal_font_size
           text_width == text_measure_width(font, 1, size)
       IN DrawCardinalsFrom(
            text_render_with_outline(m, font, 1, label_x - (text_width \div 2),
                                     label_y - (size \div 2),
                                     c.radar_compass_cardinal_color, size),
            c, cx, cy, radius_x, radius_y, rotation_deg, i + 1)

draw_cardinals(m, c, cx, cy, radius_x, radius_y, rotation_deg) ==
  IF ~c.font_radar_compass_cardinals THEN m
  ELSE DrawCardinalsFrom(m, c, cx, cy, radius_x, radius_y, rotation_deg, 1)

draw_fov_wedge(m, c, cx, cy, radius_x, radius_y, fov_angle_deg) ==
  LET half_fov == fov_angle_deg \div 2
      fill == draw_ellipse_wedge_filled(cx, cy, radius_x, radius_y, -half_fov, half_fov)
      edge == draw_ellipse_wedge_outline(cx, cy, radius_x, radius_y, -half_fov, half_fov,
                                         c.radar_compass_fov_outline_thickness)
  IN IF fov_angle_deg <= 0 THEN m
     ELSE Blit(Blit(m, fill, c.radar_compass_fov_fill_color),
               edge, c.radar_compass_fov_outline_color)

\* svg_render_with_alpha: the icon covers its w x h box with its colour at
\* the given opacity
svg_render_with_alpha(m, svg, x, y, w, h, alpha) ==
  LET color == svg[1]
  IN Blit(m, draw_rect_filled(x, y, w, h),
          <<ToInt(color[1] * alpha), color[2], color[3], color[4]>>)

\* a marker scaled as if every body stood above the horizon
AltitudeScale_as_above_horizon(body_altitude) == 1000 + FMul(FDiv(body_altitude, 90000), 500)

\* the scale and the opacity draw_celestial_indicator derives from a body's
\* altitude
AltitudeScale(body_altitude) ==
  IF body_altitude > 0 THEN 1000 + FMul(FDiv(body_altitude, 90000), 500)
  ELSE 700 + FMul(FDiv(body_altitude, 90000), 300)

AltitudeAlpha(body_altitude) ==
  LET faint == 500 + FMul(FDiv(body_altitude, 90000), 300)
  IN IF body_altitude > 0 THEN 1000 ELSE IF faint < 200 THEN 200 ELSE faint

\* where draw_celestial_indicator puts a body's icon: [x, y, size, alpha]
IndicatorBox(c, cx, cy, radius_x, radius_y, rotation_deg, body_azimuth, body_altitude) ==
  LET relative_azimuth_deg == body_azimuth + rotation_deg
      pos_x == cx + TruncMul(FMul(radius_x, 900), SinDeg(relative_azimuth_deg))
      pos_y == cy - TruncMul(FMul(radius_y, 900), CosDeg(relative_azimuth_deg))
      scale == AltitudeScale(body_altitude)
      alpha == AltitudeAlpha(body_altitude)
      base_size == c.radar_compass_size \div 8
      scaled == ToInt(base_size * FMul(scale, c.celestial_indicator_scale))
      indicator_size == IF scaled < 8 THEN 8 ELSE scaled
  IN [x |-> pos_x - indicator_size \div 2, y |-> pos_y - indicator_size \div 2,
      size |-> indicator_size, alpha |-> alpha]

draw_celestial_indicator(m, c, svg, cx, cy, radius_x, radius_y, rotation_deg, body_azimuth, body_altitude) ==
  LET box == IndicatorBox(c, cx, cy, radius_x, radius_y, rotation_deg,
                          body_azimuth, body_altitude)
  IN IF svg = <<>> THEN m
     ELSE svg_render_with_alpha(m, svg, box.x, box.y, box.size, box.size, box.alpha)

\* the ephemeris (Astronomy Engine) is an external service; this sky stands
\* for it: by the hour of the timestamp the sun is high in the south-east
\* with the moon set, the sun is on the western horizon just under the
\* visibility threshold of -5 degrees with the moon high in the north, or
\* the calculation fails for both bodies
Body(valid, azimuth, altitude) == [valid |-> valid, azimuth |-> azimuth, altitude |-> altitude]

celestial_calculate(unix_timestamp, observer) ==
  CASE unix_timestamp % 3 = 1 ->
         [sun |-> Body(TRUE, 135000, 45000), moon |-> Body(TRUE, 315000, -30000)]
    [] unix_timestamp % 3 = 2 ->
         [sun |-> Body(TRUE, 270000, -6000), moon |-> Body(TRUE, 0, 60000)]
    [] OTHER -> [sun |-> Body(FALSE, 0, 0), moon |-> Body(FALSE, 0, 0)]

\* the timestamp draw_celestial_indicators computes with: the position's,
\* or the record's time when the position carries none
CelestialTimestamp(state) ==
  LET gps == osd_state_get_gps(state).pos
  IN IF gps.timestamp = 0 THEN osd_state_get_timestamp(state) ELSE gps.timestamp

\* a body handed on whatever its altitude
BodyShown_at_any_altitude(c, state, show, body) ==
  LET gps == osd_state_get_gps(state)
      observer == [latitude |-> gps.pos.latitude, longitude |-> gps.pos.longitude,
                   altitude |-> gps.pos.altitude]
      position == celestial_calculate(CelestialTimestamp(state), observer)[body]
  IN /\ c.celestial_enabled
     /\ gps.ret /\ gps.pos.valid
     /\ CelestialTimestamp(state) # 0
     /\ show /\ position.valid

\* whether draw_celestial_indicators hands a body to draw_celestial_indicator
BodyShown(c, state, show, body) ==
  LET gps == osd_state_get_gps(state)
      observer == [latitude |-> gps.pos.latitude, longitude |-> gps.pos.longitude,
                   altitude |-> gps.pos.altitude]
      position == celestial_calculate(CelestialTimestamp(state), observer)[body]
  IN /\ c.celestial_enabled
     /\ gps.ret /\ gps.pos.valid
     /\ CelestialTimestamp(state) # 0
     /\ show /\ position.valid
     /\ position.altitude >= c.celestial_visibility_threshold

draw_celestial_indicators(m, c, state, cx, cy, radius_x, radius_y, rotation_deg) ==
  LET gps == osd_state_get_gps(state).pos
      observer == [latitude |-> gps.latitude, longitude |-> gps.longitude,
                   altitude |-> gps.altitude]
      positions == celestial_calculate(CelestialTimestamp(state), observer)
      m1 == IF BodyShown(c, state, c.celestial_show_sun, "sun")
            THEN draw_celestial_indicator(m, c, c.celestial_sun_svg, cx, cy, radius_x,
                                          radius_y, rotation_deg, positions.sun.azimuth,
                                          positions.sun.altitude)
            ELSE m
  IN IF BodyShown(c, state, c.celestial_show_moon, "moon")
     THEN draw_celestial_indicator(m1, c, c.celestial_moon_svg, cx, cy, radius_x,
                                   radius_y, rotation_deg, positions.moon.azimuth,
                                   positions.moon.altitude)
     ELSE m1

\* the geometry with the camera's value used as it comes, no default
CompassGeometry_without_default(c, pb_state) ==
  LET base_radius == Fl(c.radar_compass_size) \div 2
  IN [radius_x |-> base_radius,
      radius_y |-> FMul(base_radius, PERSPECTIVE_SCALE),
      cx |-> c.radar_compass_x + c.radar_compass_size \div 2,
      cy |-> c.radar_compass_y
             + ToInt(FMul(Fl(c.radar_compass_size), PERSPECTIVE_SCALE) \div 2),
      rotation_deg |-> -osd_state_get_orientation(pb_state),
      fov_angle |-> osd_state_get_camera_fov_day(pb_state)]

\* the geometry radar_compass_render computes before it draws: the ellipse,
\* the rotation of the labels and the angle of the wedge
CompassGeometry(c, pb_state) ==
  LET base_radius == Fl(c.radar_compass_size) \div 2
      fov == osd_state_get_camera_fov_day(pb_state)
  IN [radius_x |-> base_radius,
      radius_y |-> FMul(base_radius, PERSPECTIVE_SCALE),
      cx |-> c.radar_compass_x + c.radar_compass_size \div 2,
      cy |-> c.radar_compass_y
             + ToInt(FMul(Fl(c.radar_compass_size), PERSPECTIVE_SCALE) \div 2),
      rotation_deg |-> -osd_state_get_orientation(pb_state),
      fov_angle |-> IF fov <= 0 THEN 45000 ELSE fov]

\* a radar_compass_render that draws in the order of the header's comment:
\* the cardinal labels before the wedge
radar_compass_render_cardinals_first(c, m, pb_state) ==
  LET g == CompassGeometry(c, pb_state)
      m1 == draw_rings(m, c, g.cx, g.cy, g.radius_x, g.radius_y)
      m2 == draw_ring_labels(m1, c, g.cx, g.cy, g.radius_x, g.radius_y)
      m3 == draw_cardinals(m2, c, g.cx, g.cy, g.radius_x, g.radius_y, g.rotation_deg)
      m4 == draw_fov_wedge(m3, c, g.cx, g.cy, g.radius_x, g.radius_y, g.fov_angle)
  IN IF ~c.radar_compass_enabled THEN Drawn(m, FALSE)
     ELSE Drawn(draw_celestial_indicators(m4, c, pb_state, g.cx, g.cy, g.radius_x,
                                          g.radius_y, g.rotation_deg), TRUE)

radar_compass_render(c, m, pb_state) ==
  LET g == CompassGeometry(c, pb_state)
  IN IF ~c.radar_compass_enabled THEN Drawn(m, FALSE)
     ELSE Drawn(
            draw_celestial_indicators(
              draw_cardinals(
                draw_fov_wedge(
                  draw_ring_labels(
                    draw_rings(m, c, g.cx, g.cy, g.radius_x, g.radius_y),
                    c, g.cx, g.cy, g.radius_x, g.radius_y),
                  c, g.cx, g.cy, g.radius_x, g.radius_y, g.fov_angle),
                c, g.cx, g.cy, g.radius_x, g.radius_y, g.rotation_deg),
              c, pb_state, g.cx, g.cy, g.radius_x, g.radius_y, g.rotation_deg),
            TRUE)

\* radar_compass_cleanup: frees the fonts and SVGs and disables the widget
radar_compass_cleanup(c) ==
  [c EXCEPT !.font_radar_compass_ring_labels = FALSE,
            !.font_radar_compass_cardinals = FALSE,
            !.celestial_sun_svg = <<>>,
            !.celestial_moon_svg = <<>>,
            !.radar_compass_enabled = FALSE]

(***************************************************************************)
(* Navball widget (widgets/navball.c): vectors, skin texture, lookup table *)
(***************************************************************************)
vec3_new(x, y, z) == [x |-> x, y |-> y, z |-> z]

vec3_dot(a, b) == FMul(a.x, b.x) + FMul(a.y, b.y) + FMul(a.z, b.z)

\* sqrtf of a fixed-point value: the largest r with r*r <= 1000*v
RECURSIVE SqrtBetween(_, _, _)
SqrtBetween(n, lo, hi) ==
  IF hi - lo <= 1 THEN lo
  ELSE LET mid == (lo + hi) \div 2
       IN IF mid * mid <= n THEN SqrtBetween(n, mid, hi) ELSE SqrtBetween(n, lo, mid)

sqrtf(v) == SqrtBetween(v * 1000, 0, 46341)

vec3_length(v) == sqrtf(vec3_dot(v, v))

\* the guard len > 0.0001f is len > 0 in thousandths
vec3_normalize(v) ==
  LET len == vec3_length(v)
  IN IF len > 0 THEN vec3_new(FDiv(v.x, len), FDiv(v.y, len), FDiv(v.z, len)) ELSE v

\* the heap: one record per block ever allocated, in allocation order; a
\* pointer is the block's position and 0 is NULL.  A texture_t with its
\* pixel data is one block, a navball_lut_t with its entries is one block.
Block(kind, data) == [kind |-> kind, live |-> TRUE, frees |-> 0, data |-> data]

malloc(h, kind, data) == Append(h, Block(kind, data))

free(h, p) == [h EXCEPT ![p].live = FALSE, ![p].frees = @ + 1]

\* a skin of one colour, 2x1 texels
Texture(color) == [data |-> color, width |-> 2, height |-> 1]

SkinColor == <<255, 50, 100, 200>>

\* bilinear filtering of four texels of the same colour: the weights sum to
\* one, so the sample is that colour wherever (u, v) points
texture_sample(tex, u, v) == IF tex = NULL THEN <<255, 0, 0, 0>> ELSE tex[1].data

\* one entry of the lookup table: calloc leaves an invalid entry's point zero
LutEntry(size, radius, idx) ==
  LET x == idx % size
      y == idx \div size
      sx == Fl(x) - radius
      sy == Fl(y) - radius
      dist_sq == FMul(sx, sx) + FMul(sy, sy)
      radius_sq == FMul(radius, radius)
  IN IF dist_sq <= radius_sq
     THEN [sphere_point |-> vec3_normalize(vec3_new(sx, sy, sqrtf(radius_sq - dist_sq))),
           valid |-> TRUE]
     ELSE [sphere_point |-> vec3_new(0, 0, 0), valid |-> FALSE]

\* a lookup table built around the integer centre size / 2
navball_lut_create_integer_radius(size) ==
  [size |-> size, total_pixels |-> size * size, radius |-> Fl(size \div 2),
   entries |-> [idx \in 0..(size * size - 1) |-> LutEntry(size, Fl(size \div 2), idx)]]

\* navball_lut_create once both allocations have succeeded: radius is
\* size / 2.0f
navball_lut_create(size) ==
  [size |-> size, total_pixels |-> size * size, radius |-> Fl(size) \div 2,
   entries |-> [idx \in 0..(size * size - 1) |-> LutEntry(size, Fl(size) \div 2, idx)]]

\* navball_config_t
NavballConfig(enabled, x, y, size, level_marker, center_indicator) ==
  [enabled |-> enabled, position_x |-> x, position_y |-> y, size |-> size,
   show_level_marker |-> level_marker,
   show_center_indicator |-> center_indicator,
   center_indicator_scale |-> 500,
   center_indicator_svg_path |-> IF center_indicator THEN "center.svg" ELSE ""]

\* the navball fields of the zeroed context
ZeroNav ==
  [navball_enabled |-> FALSE, navball_x |-> 0, navball_y |-> 0, navball_size |-> 0,
   navball_show_level_marker |-> FALSE,
   navball_show_center_indicator |-> FALSE, navball_center_indicator_scale |-> 0,
   navball_texture |-> 0, navball_lut |-> 0,
   navball_center_indicator_svg |-> FALSE]

\* what navball_init finds: whether the skin loads, whether the lookup table
\* can be allocated, whether the centre indicator's SVG loads
Resources(texture, lut, svg) == [texture |-> texture, lut |-> lut, svg |-> svg]

NavResult(n, h, ret) == [nav |-> n, heap |-> h, ret |-> ret]

\* a navball_init that only warns about a skin that does not load
navball_init_skin_optional(n, h, config, found) ==
  LET n1 == [n EXCEPT !.navball_enabled = config.enabled,
                      !.navball_x = config.position_x,
                      !.navball_y = config.position_y,
                      !.navball_size = config.size,
                      !.navball_show_level_marker = config.show_level_marker,
                      !.navball_show_center_indicator = config.show_center_indicator,
                      !.navball_center_indicator_scale = config.center_indicator_scale]
      h1 == IF found.texture THEN malloc(h, "texture", Texture(SkinColor)) ELSE h
      n2 == [n1 EXCEPT !.navball_texture = IF found.texture THEN Len(h1) ELSE 0]
      h2 == IF found.lut THEN malloc(h1, "lut", navball_lut_create(config.size)) ELSE h1
      n3 == [n2 EXCEPT !.navball_lut = IF found.lut THEN Len(h2) ELSE 0]
  IN IF ~config.enabled THEN NavResult(n1, h, TRUE) ELSE NavResult(n3, h2, TRUE)

\* navball_init with non-NULL ctx and config
navball_init(n, h, config, found) ==
  LET n1 == [n EXCEPT !.navball_enabled = config.enabled,
                      !.navball_x = config.position_x,
                      !.navball_y = config.position_y,
                      !.navball_size = config.size,
                      !.navball_show_level_marker = config.show_level_marker,
                      !.navball_show_center_indicator = config.show_center_indicator,
                      !.navball_center_indicator_scale = config.center_indicator_scale]
      h1 == malloc(h, "texture", Texture(SkinColor))
      texture == Len(h1)
      n2 == [n1 EXCEPT !.navball_texture = texture]
      h2 == malloc(h1, "lut", navball_lut_create(config.size))
      n3 == [n2 EXCEPT !.navball_lut = Len(h2)]
      n4 == IF config.show_center_indicator /\ config.center_indicator_svg_path # ""
            THEN IF found.svg THEN [n3 EXCEPT !.navball_center_indicator_svg = TRUE]
                 ELSE [n3 EXCEPT !.navball_center_indicator_svg = FALSE,
                                 !.navball_show_center_indicator = FALSE]
            ELSE n3
  IN IF ~config.enabled THEN NavResult(n1, h, TRUE)
     ELSE IF ~found.texture
     THEN NavResult([n1 EXCEPT !.navball_texture = 0, !.navball_enabled = FALSE], h, FALSE)
     ELSE IF ~found.lut
     THEN NavResult([n2 EXCEPT !.navball_lut = 0, !.navball_texture = 0,
                               !.navball_enabled = FALSE],
                    free(h1, texture), FALSE)
     ELSE NavResult(n4, h2, TRUE)

\* svg_render: the icon covers its w x h box
svg_render(m, x, y, w, h) == Blit(m, draw_rect_filled(x, y, w, h), Opaque)

\* the light direction, normalised once
LightDir == vec3_normalize(vec3_new(300, 300, 1000))

\* the texel of one sphere pixel after lighting (0.4 ambient + 0.6 diffuse)
LitColor(skin, point) ==
  LET color == texture_sample(skin, 0, 0)
      d == vec3_dot(point, LightDir)
      ndotl == IF d < 0 THEN 0 ELSE d
      lighting == 400 + FMul(600, ndotl)
  IN <<color[1], ToInt(color[2] * lighting), ToInt(color[3] * lighting),
       ToInt(color[4] * lighting)>>

\* the entry at a table index; an index outside the table reads no entry
LutRead(lut, idx) ==
  IF idx \in DOMAIN lut.entries THEN lut.entries[idx]
  ELSE [sphere_point |-> vec3_new(0, 0, 0), valid |-> FALSE]

\* the sphere loop of navball_render from pixel k of size*size on
RECURSIVE SpherePixelsFrom(_, _, _, _, _)
SpherePixelsFrom(m, n, skin, lut, k) ==
  IF k >= n.navball_size * n.navball_size THEN m
  ELSE LET x == k % n.navball_size
           y == k \div n.navball_size
           entry == LutRead(lut, y * lut.size + x)
           screen_x == n.navball_x + x
           screen_y == n.navball_y + y
       IN SpherePixelsFrom(
            IF entry.valid /\ screen_x >= 0 /\ screen_x < FbWidth
                           /\ screen_y >= 0 /\ screen_y < FbHeight
            THEN Blit(m, <<<<screen_x, screen_y>>>>, LitColor(skin, entry.sphere_point))
            ELSE m,
            n, skin, lut, k + 1)

\* the table indices the sphere loop and the level marker read
LutReads(n, lut) ==
  {(k \div n.navball_size) * lut.size + (k % n.navball_size) :
     k \in 0..(n.navball_size * n.navball_size - 1)}
  \cup (IF n.navball_show_level_marker
        THEN {i \in {(n.navball_size \div 2) * lut.size + x : x \in 0..(n.navball_size - 1)} :
                i >= 0 /\ i < lut.total_pixels}
        ELSE {})

\* a level marker drawn across the whole box of the navball
LevelMarker_across_the_box(m, n, lut) == Blit(m, [i \in 1..n.navball_size |-> <<n.navball_x + i - 1, n.navball_y + n.navball_size \div 2>>], White)

\* the level marker: the row through the centre, where the table is valid
LevelMarker(m, n, lut) ==
  LET center_y == n.navball_y + n.navball_size \div 2
      Idx(x) == (n.navball_size \div 2) * lut.size + x
      cols == SelectSeq([i \in 1..n.navball_size |-> i - 1],
                        LAMBDA x : Idx(x) >= 0 /\ Idx(x) < lut.total_pixels
                                   /\ LutRead(lut, Idx(x)).valid)
  IN Blit(m, [i \in 1..Len(cols) |-> <<n.navball_x + cols[i], center_y>>], White)

\* what navball_render did: the framebuffer, the return value, the table
\* indices read, and whether a freed block was read
NavFrame(m, ret, reads, stale) == [fb |-> m, ret |-> ret, reads |-> reads, stale |-> stale]

\* navball_render past pb_state->has_actual_space_time; the rotation chooses
\* the texel, which on this skin is the same everywhere, and the celestial
\* indicators are disabled in every configuration of this model
navball_render(n, h, c, m) ==
  IF ~n.navball_enabled \/ n.navball_texture = 0 \/ n.navball_lut = 0
  THEN NavFrame(m, FALSE, {}, FALSE)
  ELSE LET skin == <<h[n.navball_texture].data>>
           lut == h[n.navball_lut].data
           m1 == SpherePixelsFrom(m, n, skin, lut, 0)
           indicator_size == ToInt(FMul(Fl(n.navball_size), n.navball_center_indicator_scale))
           m2 == IF n.navball_show_center_indicator /\ n.navball_center_indicator_svg
                 THEN svg_render(m1,
                                 n.navball_x + (n.navball_size - indicator_size) \div 2,
                                 n.navball_y + (n.navball_size - indicator_size) \div 2,
                                 indicator_size, indicator_size)
                 ELSE m1
           m3 == IF n.navball_show_level_marker THEN LevelMarker(m2, n, lut) ELSE m2
       IN NavFrame(m3, TRUE, LutReads(n, lut),
                   ~h[n.navball_texture].live \/ ~h[n.navball_lut].live)

\* a navball_cleanup that frees both blocks and keeps the pointers
navball_cleanup_keeping_pointers(n, h) ==
  LET h1 == IF n.navball_texture # 0 THEN free(h, n.navball_texture) ELSE h
      h2 == IF n.navball_lut # 0 THEN free(h1, n.navball_lut) ELSE h1
  IN [nav |-> [n EXCEPT !.navball_center_indicator_svg = FALSE], heap |-> h2]

\* navball_cleanup with a non-NULL ctx; svg_free drops the icon
navball_cleanup(n, h) ==
  LET h1 == IF n.navball_texture # 0 THEN free(h, n.navball_texture) ELSE h
      h2 == IF n.navball_lut # 0 THEN free(h1, n.navball_lut) ELSE h1
  IN [nav |-> [n EXCEPT !.navball_texture = 0, !.navball_lut = 0,
                        !.navball_center_indicator_svg = FALSE],
      heap |-> h2]

\* the return value of radar_compass_init: false only for a NULL ctx or config
radar_compass_init_result(has_ctx, has_config) == has_ctx /\ has_config

(***************************************************************************)
(* The rasterizer on its own: every drawing operation of primitives.c,     *)
(* applied to a cleared framebuffer or to one holding a filled rectangle,  *)
(* with centres and endpoints inside and outside the framebuffer.          *)
(***************************************************************************)
Colors == {Opaque, HalfAlpha}

\* x and y of endpoints and centres: left of / above the framebuffer, inside
\* it, on its last column / row, and beyond it
PointsX == {-2, 1, FbWidth - 1, FbWidth + 1}

PointsY == {-1, 2, FbHeight}

Radii == {-1000, 0, 1500, 3000}

\* <<radius_x, radius_y>> of the ellipse operations
EllipseRadii == {<<-1000, 1500>>, <<0, 3000>>, <<1500, 0>>, <<3000, 1500>>, <<3000, 3000>>}

Thicknesses == {1000, 3000}

StartAngles == {-45000, 0, 90000}

EndAngles == {45000, 180000, 360000}

Sizes == {-1, 0, 2, FbWidth + 1}

PrimNames ==
  {"draw_pixel", "draw_line", "draw_filled_circle", "draw_circle_outline",
   "draw_rect_filled", "draw_rect_outline", "draw_arc", "draw_wedge_filled",
   "draw_wedge_outline", "draw_ellipse_outline", "draw_ellipse_arc",
   "draw_ellipse_wedge_filled", "draw_ellipse_wedge_outline"}

Points(pts) == {pts[i] : i \in 1..Len(pts)}

Called(name, ret) == [name |-> name, ret |-> ret]

\* a rasterizer call starts on the cleared framebuffer or on the background
CanDraw == op.name \in {"framebuffer_clear", "background"}

\* one rasterizer call: its draw_pixel calls applied to the framebuffer
Rasterized(pts, color) == Blit(fb, pts, color)

Prim_draw_pixel ==
  /\ CanDraw
  /\ \E x \in -2..(FbWidth + 1), y \in -2..(FbHeight + 1), c \in Colors :
     \E pts \in {<<<<x, y>>>>} :
       /\ fb' = Rasterized(pts, c)
       /\ req' = Points(pts)
  /\ prev_fb' = fb.pix
  /\ op' = Called("draw_pixel", 0)
  /\ UNCHANGED <<osdVars, navVars>>

Prim_draw_line ==
  /\ CanDraw
  /\ \E x0 \in PointsX, y0 \in PointsY, x1 \in PointsX, y1 \in PointsY,
        t \in Thicknesses, c \in Colors :
     \E pts \in {draw_line(x0, y0, x1, y1, t)} :
       /\ fb' = Rasterized(pts, c)
       /\ req' = Points(pts)
  /\ prev_fb' = fb.pix
  /\ op' = Called("draw_line", 0)
  /\ UNCHANGED <<osdVars, navVars>>

Prim_draw_filled_circle ==
  /\ CanDraw
  /\ \E cx \in PointsX, cy \in PointsY, r \in Radii, c \in Colors :
     \E pts \in {draw_filled_circle(cx, cy, r)} :
       /\ fb' = Rasterized(pts, c)
       /\ req' = Points(pts)
  /\ prev_fb' = fb.pix
  /\ op' = Called("draw_filled_circle", 0)
  /\ UNCHANGED <<osdVars, navVars>>

Prim_draw_circle_outline ==
  /\ CanDraw
  /\ \E cx \in PointsX, cy \in PointsY, r \in Radii, t \in Thicknesses, c \in Colors :
     \E pts \in {draw_circle_outline(cx, cy, r, t)} :
       /\ fb' = Rasterized(pts, c)
       /\ req' = Points(pts)
  /\ prev_fb' = fb.pix
  /\ op' = Called("draw_circle_outline", 0)
  /\ UNCHANGED <<osdVars, navVars>>

Prim_draw_rect_filled ==
  /\ CanDraw
  /\ \E x \in PointsX, y \in PointsY, w \in Sizes, h \in Sizes, c \in Colors :
     \E pts \in {draw_rect_filled(x, y, w, h)} :
       /\ fb' = Rasterized(pts, c)
       /\ req' = Points(pts)
  /\ prev_fb' = fb.pix
  /\ op' = Called("draw_rect_filled", 0)
  /\ UNCHANGED <<osdVars, navVars>>

Prim_draw_rect_outline ==
  /\ CanDraw
  /\ \E x \in PointsX, y \in PointsY, w \in Sizes, h \in Sizes, t \in Thicknesses,
        c \in Colors :
     \E pts \in {draw_rect_outline(x, y, w, h, t)} :
       /\ fb' = Rasterized(pts, c)
       /\ req' = Points(pts)
  /\ prev_fb' = fb.pix
  /\ op' = Called("draw_rect_outline", 0)
  /\ UNCHANGED <<osdVars, navVars>>

Prim_draw_arc ==
  /\ CanDraw
  /\ \E cx \in PointsX, cy \in PointsY, r \in Radii, a \in StartAngles, b \in EndAngles,
        segments \in {0, 3}, c \in Colors :
     \E pts \in {draw_arc(cx, cy, r, a, b, 1000, segments)} :
       /\ fb' = Rasterized(pts, c)
       /\ req' = Points(pts)
  /\ prev_fb' = fb.pix
  /\ op' = Called("draw_arc", 0)
  /\ UNCHANGED <<osdVars, navVars>>

Prim_draw_wedge_filled ==
  /\ CanDraw
  /\ \E cx \in PointsX, cy \in PointsY, r \in Radii, a \in StartAngles, b \in EndAngles,
        c \in Colors :
     \E pts \in {draw_wedge_filled(cx, cy, r, a, b)} :
       /\ fb' = Rasterized(pts, c)
       /\ req' = Points(pts)
  /\ prev_fb' = fb.pix
  /\ op' = Called("draw_wedge_filled", 0)
  /\ UNCHANGED <<osdVars, navVars>>

Prim_draw_wedge_outline ==
  /\ CanDraw
  /\ \E cx \in PointsX, cy \in PointsY, r \in Radii, a \in StartAngles, b \in EndAngles,
        c \in Colors :
     \E pts \in {draw_wedge_outline(cx, cy, r, a, b, 1000)} :
       /\ fb' = Rasterized(pts, c)
       /\ req' = Points(pts)
  /\ prev_fb' = fb.pix
  /\ op' = Called("draw_wedge_outline", 0)
  /\ UNCHANGED <<osdVars, navVars>>

Prim_draw_ellipse_outline ==
  /\ CanDraw
  /\ \E cx \in PointsX, cy \in PointsY, rr \in EllipseRadii, t \in Thicknesses,
        c \in Colors :
     \E pts \in {draw_ellipse_outline(cx, cy, rr[1], rr[2], t)} :
       /\ fb' = Rasterized(pts, c)
       /\ req' = Points(pts)
  /\ prev_fb' = fb.pix
  /\ op' = Called("draw_ellipse_outline", 0)
  /\ UNCHANGED <<osdVars, navVars>>

Prim_draw_ellipse_arc ==
  /\ CanDraw
  /\ \E cx \in PointsX, cy \in PointsY, rr \in EllipseRadii, a \in StartAngles,
        b \in EndAngles, c \in Colors :
     \E pts \in {draw_ellipse_arc(cx, cy, rr[1], rr[2], a, b, 1000, 0)} :
       /\ fb' = Rasterized(pts, c)
       /\ req' = Points(pts)
  /\ prev_fb' = fb.pix
  /\ op' = Called("draw_ellipse_arc", 0)
  /\ UNCHANGED <<osdVars, navVars>>

Prim_draw_ellipse_wedge_filled ==
  /\ CanDraw
  /\ \E cx \in PointsX, cy \in PointsY, rr \in EllipseRadii, a \in StartAngles,
        b \in EndAngles, c \in Colors :
     \E pts \in {draw_ellipse_wedge_filled(cx, cy, rr[1], rr[2], a, b)} :
       /\ fb' = Rasterized(pts, c)
       /\ req' = Points(pts)
  /\ prev_fb' = fb.pix
  /\ op' = Called("draw_ellipse_wedge_filled", 0)
  /\ UNCHANGED <<osdVars, navVars>>

Prim_draw_ellipse_wedge_outline ==
  /\ CanDraw
  /\ \E cx \in PointsX, cy \in PointsY, rr \in EllipseRadii, a \in StartAngles,
        b \in EndAngles, c \in Colors :
     \E pts \in {draw_ellipse_wedge_outline(cx, cy, rr[1], rr[2], a, b, 1000)} :
       /\ fb' = Rasterized(pts, c)
       /\ req' = Points(pts)
  /\ prev_fb' = fb.pix
  /\ op' = Called("draw_ellipse_wedge_outline", 0)
  /\ UNCHANGED <<osdVars, navVars>>

\* an earlier draw_rect_filled has left an opaque rectangle on the left half
\* of the framebuffer
PaintBackground ==
  /\ op.name = "framebuffer_clear"
  /\ fb' = Blit(fb, draw_rect_filled(0, 0, FbWidth \div 2, FbHeight), Background)
  /\ prev_fb' = fb.pix
  /\ req' = {}
  /\ op' = Called("background", 0)
  /\ UNCHANGED <<osdVars, navVars>>

InitPrim ==
  /\ fb = Mem(ClearPixels, {})
  /\ prev_fb = ClearPixels
  /\ req = {}
  /\ op = Called("framebuffer_clear", 0)
  /\ ctx = ZeroContext
  /\ calls = NoCalls
  /\ nav = ZeroNav
  /\ heap = <<>>

NextPrim ==
  \/ Prim_draw_pixel
  \/ Prim_draw_line
  \/ Prim_draw_filled_circle
  \/ Prim_draw_circle_outline
  \/ Prim_draw_rect_filled
  \/ Prim_draw_rect_outline
  \/ Prim_draw_arc
  \/ Prim_draw_wedge_filled
  \/ Prim_draw_wedge_outline
  \/ Prim_draw_ellipse_outline
  \/ Prim_draw_ellipse_arc
  \/ Prim_draw_ellipse_wedge_filled
  \/ Prim_draw_ellipse_wedge_outline
  \/ PaintBackground

SpecPrim == InitPrim /\ [][NextPrim]_vars

\* C1: every drawing operation of the rasterizer changes the framebuffer only
\* through the bounds-checked blend: no store lands outside the width x height
\* array, and a pixel differs from its value before the operation only if the
\* operation asked draw_pixel for that very in-bounds coordinate, so a blend
\* at a point outside the framebuffer changes no pixel.
C1_OnlyBoundsCheckedBlend ==
  /\ fb.out = {}
  /\ op.name \in PrimNames =>
       \A x \in 0..(FbWidth - 1), y \in 0..(FbHeight - 1) :
         fb.pix[y * FbWidth + x] # prev_fb[y * FbWidth + x] => <<x, y>> \in req

\* a drawing operation that was asked for points outside the framebuffer and
\* for points inside it, and changed pixels
C1_Witness ==
  /\ op.name \in PrimNames
  /\ \E p \in req : ~InBounds(p[1], p[2])
  /\ \E p \in req : InBounds(p[1], p[2])
  /\ fb.pix # prev_fb

(***************************************************************************)
(* The plugin's entry points (osd_plugin.c)                                 *)
(***************************************************************************)
\* bound of the call sequences: the init calls, successful updates and
\* non-skipped renders of a run
MaxCalls == 3

TimestampFont == "timestamp.ttf"

SpeedFont == "speed.ttf"

VariantFont == "variant.ttf"

AllFonts == {TimestampFont, SpeedFont, VariantFont}

\* every widget enabled, the crosshair as a +
FullConfig ==
  Config(CrosshairConfig(TRUE, "vertical"), TextConfig(TRUE, 0, 0, TimestampFont),
         SpeedConfig(TRUE, SpeedFont), TextConfig(TRUE, 0, 4, VariantFont),
         RadarCompassConfig(TRUE, 2))

\* the crosshair alone, as an X
CrosshairOnlyConfig ==
  Config(CrosshairConfig(TRUE, "diagonal"), TextConfig(FALSE, 0, 0, TimestampFont),
         SpeedConfig(TRUE, SpeedFont), TextConfig(FALSE, 0, 4, VariantFont),
         RadarCompassConfig(FALSE, 2))

\* every widget but the crosshair
NoCrosshairConfig ==
  Config(CrosshairConfig(FALSE, "vertical"), TextConfig(TRUE, 0, 0, TimestampFont),
         SpeedConfig(FALSE, SpeedFont), TextConfig(TRUE, 0, 4, VariantFont),
         RadarCompassConfig(TRUE, 1))

\* every widget disabled; more rings than the context can hold
HiddenConfig ==
  Config(CrosshairConfig(FALSE, "vertical"), TextConfig(FALSE, 0, 0, TimestampFont),
         SpeedConfig(FALSE, SpeedFont), TextConfig(FALSE, 0, 4, VariantFont),
         [RadarCompassConfig(FALSE, 7) EXCEPT
            !.ring_distances = <<2000, 1000, 2000, 1000, 2000>>])

\* HiddenConfig with no font configured for one of the three widgets
NoTimestampFontConfig == [HiddenConfig EXCEPT !.timestamp.font_path = ""]

NoSpeedFontConfig == [HiddenConfig EXCEPT !.speed_indicators.font_path = ""]

NoVariantFontConfig == [HiddenConfig EXCEPT !.variant_info.font_path = ""]

\* what wasm_osd_init finds: <<file, loadable>>, file being <<>> for a
\* config file that cannot be read or parsed and <<config>> otherwise,
\* loadable the font files that load
Found(file, loadable) == <<file, loadable>>

InitInputs ==
  {Found(<<>>, AllFonts), Found(<<FullConfig>>, AllFonts),
   Found(<<CrosshairOnlyConfig>>, AllFonts), Found(<<NoCrosshairConfig>>, AllFonts),
   Found(<<NoTimestampFontConfig>>, AllFonts), Found(<<NoSpeedFontConfig>>, AllFonts),
   Found(<<NoVariantFontConfig>>, AllFonts)}
  \cup {Found(<<HiddenConfig>>, AllFonts \ {f}) : f \in AllFonts}

\* load_config_xml / config_parse_json: a parse failure leaves the
\* configuration as it was
load_config_xml(c, file) == IF file = <<>> THEN c ELSE [c EXCEPT !.config = file[1]]

\* a wasm_osd_init that treats the three fonts as optional
osd_init_fonts_optional(c, file, loadable) ==
  LET c0 == [c EXCEPT !.framebuffer = TRUE, !.width = FbWidth, !.height = FbHeight,
                      !.needs_render = TRUE, !.frame_count = 0]
      c1 == load_config_xml(c0, file)
      c4 == [c1 EXCEPT !.font_timestamp = font_load(c1.config.timestamp.font_path, loadable),
                       !.font_speed_indicators =
                          font_load(c1.config.speed_indicators.font_path, loadable),
                       !.font_variant_info =
                          font_load(c1.config.variant_info.font_path, loadable)]
      c5 == radar_compass_init(c4, c4.config.radar_compass,
                               c4.config.celestial_indicators, loadable)
  IN IF file = <<>> THEN [ctx |-> c0, ret |-> -1]
     ELSE [ctx |-> [c5 EXCEPT !.proto_size = 0, !.proto_valid = FALSE], ret |-> 0]

\* wasm_osd_init up to its return: [ctx, ret]
osd_init(c, file, loadable) ==
  LET c0 == [c EXCEPT !.framebuffer = TRUE, !.width = FbWidth, !.height = FbHeight,
                      !.needs_render = TRUE, !.frame_count = 0]
      c1 == load_config_xml(c0, file)
      ts == c1.config.timestamp.font_path
      c2 == [c1 EXCEPT !.font_timestamp = font_load(ts, loadable)]
      sp == c2.config.speed_indicators.font_path
      c3 == [c2 EXCEPT !.font_speed_indicators = font_load(sp, loadable)]
      vi == c3.config.variant_info.font_path
      c4 == [c3 EXCEPT !.font_variant_info = font_load(vi, loadable)]
      c5 == radar_compass_init(c4, c4.config.radar_compass,
                               c4.config.celestial_indicators, loadable)
      Failed(cc) == [ctx |-> cc, ret |-> -1]
  IN IF file = <<>> THEN Failed(c0)
     ELSE IF ts = "" THEN Failed(c1)
     ELSE IF ~c2.font_timestamp THEN Failed(c2)
     ELSE IF sp = "" THEN Failed(c2)
     ELSE IF ~c3.font_speed_indicators THEN Failed(c3)
     ELSE IF vi = "" THEN Failed(c3)
     ELSE IF ~c4.font_variant_info THEN Failed(c4)
     ELSE [ctx |-> [c5 EXCEPT !.proto_size = 0, !.proto_valid = FALSE], ret |-> 0]

\* the host's telemetry messages: a record aimed far off the screen with a
\* 90 degree field of view, malformed bytes, and a record with a moving
\* rotary padded with zero bytes to exactly the buffer size
AimedBytes == Bytes(<<1, 100, 2, 156, 8, 90>>, 0)

MalformedBytes == Bytes(<<255, 255, 255>>, 0)

FullBufferBytes == Bytes(<<1, 255, 6, 5, 7, 90>>, ProtoBufferSize - 6)

\* rejected sizes: nothing, and one byte more than the buffer holds
EmptyBytes == <<>>

OversizeBytes == Bytes(<<1, 1>>, ProtoBufferSize - 1)

Payloads ==
  {AimedBytes, MalformedBytes, FullBufferBytes, EmptyBytes, OversizeBytes}

\* an update that stores whatever fits and reports success for any size
osd_update_state_unchecked(c, bytes, state_size) ==
  [ctx |-> [c EXCEPT !.proto_buffer = RTake(memcpy(@, bytes, state_size), ProtoBufferSize),
                     !.proto_size = state_size,
                     !.proto_valid = TRUE,
                     !.needs_render = TRUE,
                     !.frame_count = @ + 1],
   ret |-> 0]

\* wasm_osd_update_state(state_ptr, state_size) with the host bytes at
\* state_ptr: [ctx, ret]
osd_update_state(c, bytes, state_size) ==
  IF state_size > ProtoBufferSize THEN [ctx |-> c, ret |-> -1]
  ELSE IF state_size = 0 THEN [ctx |-> c, ret |-> -1]
  ELSE [ctx |-> [c EXCEPT !.proto_buffer = memcpy(@, bytes, state_size),
                          !.proto_size = state_size,
                          !.proto_valid = TRUE,
                          !.needs_render = TRUE,
                          !.frame_count = @ + 1],
        ret |-> 0]

\* the values a read of pb_state->rec_osd yields: the record's when there is
\* one; through a NULL pointer the behaviour is undefined, and the build
\* either traps or reads whatever lies at the bottom of memory
GarbageRecOsd ==
  {ZeroRecOsd,
   [ZeroRecOsd EXCEPT !.heat_osd_enabled = TRUE,
                      !.heat_crosshair_offset_horizontal = 1,
                      !.heat_crosshair_offset_vertical = -1]}

Read(trap, rec_osd) == [trap |-> trap, rec_osd |-> rec_osd]

RecOsdReads(c, pb_state) ==
  IF ~c.config.crosshair.enabled THEN {Read(FALSE, ZeroRecOsd)}
  ELSE IF pb_state # NULL THEN {Read(FALSE, pb_state[1].rec_osd)}
  ELSE {Read(TRUE, ZeroRecOsd)} \cup {Read(FALSE, g) : g \in GarbageRecOsd}

\* one more widget's result joined to the frame so far: its framebuffer, and
\* the OR of the return values
Also(before, w) == Drawn(w.fb, before.rendered \/ w.rendered)

\* render_widgets from variant_info_render on, w being the frame so far
RenderVariantInfo(c, proto_state, w) == Also(w, variant_info_render(c, w.fb, proto_state))

\* render_widgets from radar_compass_render on
RenderCompass(c, proto_state, w) ==
  RenderVariantInfo(c, proto_state,
                    Also(w, IF proto_state # NULL
                            THEN radar_compass_render(c, w.fb, proto_state)
                            ELSE Drawn(w.fb, FALSE)))

\* render_widgets from timestamp_render on
RenderTimestamp(c, proto_state, w) ==
  RenderCompass(c, proto_state,
                Also(w, IF proto_state # NULL
                        THEN timestamp_render(c, w.fb, proto_state)
                        ELSE Drawn(w.fb, FALSE)))

\* a render_widgets that reports whether a pixel of the cleared framebuffer
\* changed
render_widgets_reporting_change(c, m, proto_state, rec_osd) ==
  LET w == RenderTimestamp(c, proto_state, crosshair_render(c, m, proto_state, rec_osd))
  IN Drawn(w.fb, w.fb.pix # m.pix)

\* render_widgets: the framebuffer afterwards and the OR of the widgets'
\* return values
render_widgets(c, m, proto_state, rec_osd) ==
  RenderTimestamp(c, proto_state, crosshair_render(c, m, proto_state, rec_osd))

\* what the last wasm_osd_render did: whether it returned and what, whether
\* it was skipped, the record pointer it handed to the widgets, the bytes it
\* gave the decoder (<<>> if none), the crosshair centre (<<>> if the
\* crosshair was not drawn) and whether rec_osd was read through NULL
Frame(ret, returned, skipped, pb_ptr, decoded, crosshair, null_read) ==
  [name |-> "wasm_osd_render", ret |-> ret, returned |-> returned,
   skipped |-> skipped, pb_ptr |-> pb_ptr, decoded |-> decoded,
   crosshair |-> crosshair, null_read |-> null_read]

\* what the last wasm_osd_init found and returned
Inited(ret, found) == [name |-> "wasm_osd_init", ret |-> ret, found |-> found]

\* the size and the return value of the last wasm_osd_update_state
Updated(ret, state_size) ==
  [name |-> "wasm_osd_update_state", ret |-> ret, state_size |-> state_size]

\* a clear that leaves the framebuffer as it is
framebuffer_kept(m) == m

\* memset(g_framebuffer, 0, sizeof(g_framebuffer))
framebuffer_clear(m) == Mem(ClearPixels, m.out)

\* a wasm_osd_render without the early return
render_never_skipped(c) == FALSE

\* the early return of wasm_osd_render
render_skipped(c) == ~c.needs_render

\* the calls counted in calls, and whether the run may hold one more
Counted == calls.init + calls.update + calls.render

Budget == Counted < calls.limit

wasm_osd_init ==
  /\ Budget
  /\ \E found \in InitInputs :
       \E r \in {osd_init(ctx, found[1], found[2])} :
         /\ ctx' = r.ctx
         /\ fb' = IF r.ret = 0 THEN framebuffer_clear(fb) ELSE fb
         /\ op' = Inited(r.ret, found)
         /\ calls' = [calls EXCEPT !.init = @ + 1, !.ready = (r.ret = 0)]
  /\ prev_fb' = fb.pix
  /\ req' = {}
  /\ UNCHANGED navVars

wasm_osd_update_state ==
  /\ Budget
  /\ \E bytes \in Payloads :
       \E r \in {osd_update_state(ctx, bytes, RLen(bytes))} :
         /\ ctx' = r.ctx
         /\ op' = Updated(r.ret, RLen(bytes))
         /\ calls' = IF r.ret = 0
                     THEN [calls EXCEPT !.update = @ + 1, !.latest = bytes]
                     ELSE calls
  /\ prev_fb' = fb.pix
  /\ req' = {}
  /\ UNCHANGED <<fb, navVars>>

wasm_osd_render ==
  /\ Budget \/ render_skipped(ctx)
  /\ prev_fb' = fb.pix
  /\ req' = {}
  /\ UNCHANGED navVars
  /\ IF render_skipped(ctx)
     THEN /\ op' = Frame(0, TRUE, TRUE, NULL, <<>>, <<>>, FALSE)
          /\ UNCHANGED <<fb, ctx, calls>>
     ELSE \E pb_ptr \in {decode_proto_state(ctx)} :
          \E read \in RecOsdReads(ctx, pb_ptr) :
          \E w \in {render_widgets(ctx, framebuffer_clear(fb), pb_ptr, read.rec_osd)} :
            LET decoded == IF ctx.proto_valid
                           THEN RTake(ctx.proto_buffer, ctx.proto_size) ELSE <<>>
                crosshair == IF ctx.config.crosshair.enabled
                             THEN CrosshairCentre(ctx, read.rec_osd) ELSE <<>>
                null_read == ctx.config.crosshair.enabled /\ pb_ptr = NULL
            IN /\ calls' = [calls EXCEPT !.render = @ + 1]
               /\ IF read.trap
                  THEN /\ fb' = framebuffer_clear(fb)
                       /\ ctx' = ctx
                       /\ op' = Frame(0, FALSE, FALSE, pb_ptr, decoded, <<>>, null_read)
                  ELSE /\ fb' = w.fb
                       /\ ctx' = [ctx EXCEPT !.needs_render = FALSE]
                       /\ op' = Frame(IF w.rendered THEN 1 ELSE 0, TRUE, FALSE,
                                      pb_ptr, decoded, crosshair, null_read)

wasm_osd_destroy ==
  /\ ctx' = ZeroContext
  /\ op' = Called("wasm_osd_destroy", 0)
  /\ prev_fb' = fb.pix
  /\ req' = {}
  /\ calls' = [calls EXCEPT !.ready = FALSE]
  /\ UNCHANGED <<fb, navVars>>

Init ==
  /\ fb = Mem(ClearPixels, {})
  /\ prev_fb = ClearPixels
  /\ req = {}
  /\ op = Called("load", 0)
  /\ ctx = ZeroContext
  /\ calls = [NoCalls EXCEPT !.limit = MaxCalls]
  /\ nav = ZeroNav
  /\ heap = <<>>

Next ==
  \/ wasm_osd_init
  \/ wasm_osd_update_state
  \/ wasm_osd_render
  \/ wasm_osd_destroy

Spec == Init /\ [][Next]_vars

(***************************************************************************)
(* Claims about the plugin's entry points                                   *)
(***************************************************************************)
ScreenCentre == <<FbWidth \div 2, FbHeight \div 2>>

\* C2: after a successful wasm_osd_init every wasm_osd_render completes the
\* whole frame in every telemetry situation: the call returns, no widget has
\* read a field through a NULL telemetry record, and when there is no record
\* the enabled crosshair is drawn at the screen centre with zero offset.
C2_RenderCompletesWithoutRecord ==
  (op.name = "wasm_osd_render" /\ calls.ready) =>
    /\ op.returned
    /\ ~op.null_read
    /\ (~op.skipped /\ op.pb_ptr = NULL /\ ctx.config.crosshair.enabled)
         => op.crosshair = ScreenCentre

\* some widget's render step returned true in the last frame: the crosshair
\* or the variant info when enabled, the timestamp or the compass when
\* enabled and handed a record
WidgetRendered ==
  \/ ctx.config.crosshair.enabled
  \/ op.pb_ptr # NULL /\ (ctx.config.timestamp.enabled \/ ctx.radar_compass_enabled)
  \/ ctx.config.variant_info.enabled

C4_SkippedRenderChangesNothing ==
  /\ []((op.name = "wasm_osd_destroy") => ~ctx.needs_render)
  /\ []((op.name = "wasm_osd_render" /\ op.returned) => ~ctx.needs_render)
  /\ [][(op'.name = "wasm_osd_render" /\ ~ctx.needs_render) =>
          (op'.returned /\ op'.skipped /\ op'.ret = 0 /\ fb' = fb /\ ctx' = ctx)]_vars

\* a skipped render over a drawn frame and a stored telemetry message
C4_Witness ==
  /\ op.name = "wasm_osd_render"
  /\ op.skipped
  /\ fb.pix # ClearPixels
  /\ ctx.proto_valid

\* C5: a successful wasm_osd_update_state sets needs_render; the next
\* wasm_osd_render is not skipped, decodes exactly the bytes of the most
\* recent successful update and resets needs_render, so the non-skipped
\* renders never outnumber the successful updates plus the init calls.
C5_RenderConsumesLatestUpdate ==
  /\ (op.name = "wasm_osd_update_state" /\ op.ret = 0) => ctx.needs_render
  /\ (op.name = "wasm_osd_render" /\ ~op.skipped) =>
       /\ ~ctx.needs_render
       /\ ctx.proto_valid => op.decoded = calls.latest
  /\ calls.render <= calls.update + calls.init

\* C6: wasm_osd_update_state returns -1 exactly for a size of 0 or above
\* 4096 and then leaves the context as it was (4096 itself is accepted);
\* proto_valid implies 0 < proto_size <= 4096; frame_count grows by one in a
\* successful update and in no other call.
C6_UpdateRejectsBadSizes ==
  /\ []((op.name = "wasm_osd_update_state") =>
          /\ op.ret \in {0, -1}
          /\ op.ret = -1 <=> (op.state_size = 0 \/ op.state_size > 4096))
  /\ [](ctx.proto_valid => (0 < ctx.proto_size /\ ctx.proto_size <= 4096))
  /\ [](RLen(ctx.proto_buffer) = ProtoBufferSize)
  /\ [][(op'.name = "wasm_osd_update_state" /\ op'.ret = -1) => ctx' = ctx]_vars
  /\ [][IF op'.name = "wasm_osd_update_state" /\ op'.ret = 0
        THEN ctx'.frame_count = ctx.frame_count + 1
        ELSE ctx'.frame_count <= ctx.frame_count]_vars

\* a second successful update, of exactly 4096 bytes
C6_Witness ==
  /\ op.name = "wasm_osd_update_state"
  /\ op.ret = 0
  /\ op.state_size = 4096
  /\ ctx.proto_size = 4096
  /\ ctx.frame_count = 2

\* C7: wasm_osd_init returns 0 exactly when the configuration parsed and each
\* of the three widget fonts was configured and loaded (radar_compass_init
\* cannot fail when called with the plugin's context), and -1 otherwise;
\* when it returns 0 the framebuffer is all zero, needs_render is true,
\* frame_count is 0 and proto_valid is false.
C7_InitSucceedsIffResourcesLoad ==
  (op.name = "wasm_osd_init") =>
    LET file == op.found[1]
        loadable == op.found[2]
        loaded == /\ file # <<>>
                  /\ \A path \in {file[1].timestamp.font_path,
                                  file[1].speed_indicators.font_path,
                                  file[1].variant_info.font_path} :
                       path # "" /\ path \in loadable
    IN /\ op.ret = (IF loaded THEN 0 ELSE -1)
       /\ op.ret = 0 =>
            /\ fb.pix = ClearPixels
            /\ ctx.needs_render
            /\ ctx.frame_count = 0
            /\ ~ctx.proto_valid

\* a successful init that cleared a drawn frame
C7_Witness ==
  /\ op.name = "wasm_osd_init"
  /\ op.ret = 0
  /\ prev_fb # ClearPixels
  /\ fb.pix = ClearPixels

(***************************************************************************)
(* The widgets on their own: navball_init, navball_render, navball_cleanup *)
(* and radar_compass_init called in any order on a context whose           *)
(* framebuffer is set                                                      *)
(***************************************************************************)
\* widget calls in one run
MaxWidgetCalls == 5

RingFont == "ring.ttf"

CardinalFont == "cardinal.ttf"

LabelledCompassConfig ==
  [RadarCompassConfig(TRUE, 1) EXCEPT !.ring_label_font_path = RingFont,
                                      !.cardinal_font_path = CardinalFont]

\* the compass with both label fonts loading and with neither
CompassInputs ==
  {<<LabelledCompassConfig, {RingFont, CardinalFont}, CelestialConfig>>,
   <<LabelledCompassConfig, {}, CelestialConfig>>}

\* a navball of odd size with level marker and centre indicator hanging
\* over the framebuffer's right edge, one of even size, and a disabled one
OddNavball == NavballConfig(TRUE, FbWidth - 2, 1, 3, TRUE, TRUE)

EvenNavball == NavballConfig(TRUE, 0, 0, 4, FALSE, FALSE)

DisabledNavball == NavballConfig(FALSE, 0, 0, 3, FALSE, FALSE)

\* what navball_init is called with: everything loads, or the skin, the
\* lookup table or the centre icon does not
NavballInputs ==
  {<<OddNavball, Resources(TRUE, TRUE, TRUE)>>,
   <<OddNavball, Resources(FALSE, TRUE, TRUE)>>,
   <<OddNavball, Resources(TRUE, FALSE, TRUE)>>,
   <<OddNavball, Resources(TRUE, TRUE, FALSE)>>,
   <<EvenNavball, Resources(TRUE, TRUE, TRUE)>>,
   <<DisabledNavball, Resources(TRUE, TRUE, TRUE)>>}

WidgetBudget == calls.widget < calls.limit

WidgetInit(name, ret, config, found) ==
  [name |-> name, ret |-> ret, config |-> config, found |-> found]

NavRendered(ret, returned, pb_ptr, reads, stale) ==
  [name |-> "navball_render", ret |-> ret, returned |-> returned,
   pb_ptr |-> pb_ptr, reads |-> reads, stale |-> stale]

NavballInit ==
  /\ WidgetBudget
  /\ \E input \in NavballInputs :
       \E r \in {navball_init(nav, heap, input[1], input[2])} :
         /\ nav' = r.nav
         /\ heap' = r.heap
         /\ op' = WidgetInit("navball_init", r.ret, input[1], input[2])
  /\ calls' = [calls EXCEPT !.widget = @ + 1]
  /\ prev_fb' = fb.pix
  /\ UNCHANGED <<fb, req, ctx>>

\* navball_render tests the widget's state first and then reads
\* pb_state->has_actual_space_time: through a NULL pb_state the call traps
\* or goes on with whatever it read
NavballRender ==
  /\ WidgetBudget
  /\ \E pb_state \in {NULL, <<ZeroState>>} :
       \E r \in {navball_render(nav, heap, ctx, fb)} :
         \E trap \in (IF r.ret /\ pb_state = NULL THEN BOOLEAN ELSE {FALSE}) :
           /\ fb' = IF trap THEN fb ELSE r.fb
           /\ op' = NavRendered(r.ret /\ ~trap, ~trap, pb_state,
                                IF trap THEN {} ELSE r.reads, r.stale)
  /\ calls' = [calls EXCEPT !.widget = @ + 1]
  /\ prev_fb' = fb.pix
  /\ UNCHANGED <<req, ctx, nav, heap>>

NavballCleanup ==
  /\ WidgetBudget
  /\ \E r \in {navball_cleanup(nav, heap)} :
       /\ nav' = r.nav
       /\ heap' = r.heap
  /\ op' = Called("navball_cleanup", 0)
  /\ calls' = [calls EXCEPT !.widget = @ + 1]
  /\ prev_fb' = fb.pix
  /\ UNCHANGED <<fb, req, ctx>>

\* radar_compass_init(&ctx, &config, &celestial_config) with the files that
\* load: found is <<config, loadable, celestial_config>>
RadarCompassInitWith(found) ==
  /\ WidgetBudget
  /\ ctx' = radar_compass_init(ctx, found[1], found[3], found[2])
  /\ op' = WidgetInit("radar_compass_init", radar_compass_init_result(TRUE, TRUE),
                      found[1], found[2])
  /\ calls' = [calls EXCEPT !.widget = @ + 1]
  /\ prev_fb' = fb.pix
  /\ UNCHANGED <<fb, req, nav, heap>>

RadarCompassInit == \E found \in CompassInputs : RadarCompassInitWith(found)

InitNav ==
  /\ fb = Mem(ClearPixels, {})
  /\ prev_fb = ClearPixels
  /\ req = {}
  /\ op = Called("load", 0)
  /\ ctx = [ZeroContext EXCEPT !.framebuffer = TRUE, !.width = FbWidth, !.height = FbHeight]
  /\ calls = [NoCalls EXCEPT !.limit = MaxWidgetCalls]
  /\ nav = ZeroNav
  /\ heap = <<>>

NextNav ==
  \/ NavballInit
  \/ NavballRender
  \/ NavballCleanup
  \/ RadarCompassInit

SpecNav == InitNav /\ [][NextNav]_vars

(***************************************************************************)
(* Claims about the widgets                                                 *)
(***************************************************************************)
\* a resource navball_init tried to load or allocate and did not get
NavballResourceFailed(config, found) ==
  /\ config.enabled
  /\ \/ ~found.texture
     \/ ~found.lut
     \/ config.show_center_indicator /\ config.center_indicator_svg_path # "" /\ ~found.svg

\* a font radar_compass_init tried to load and did not get
CompassResourceFailed(config, loadable) ==
  \/ config.ring_label_font_path # "" /\ config.ring_label_font_path \notin loadable
  \/ config.cardinal_font_path # "" /\ config.cardinal_font_path \notin loadable

Present(p) == p # 0 /\ p <= Len(heap) /\ heap[p].live

\* C9: navball_render returns true exactly when the widget is enabled and
\* holds a live texture and a live lookup table; after a failed navball_init
\* and after navball_cleanup the widget is not in that state, and a render
\* from any such state returns false and leaves the framebuffer alone; no
\* render reads a freed block and no block is freed twice.
C9_NavballLifecycle ==
  /\ []((op.name = "navball_render" /\ op.returned) =>
          (op.ret <=> (nav.navball_enabled /\ Present(nav.navball_texture)
                                           /\ Present(nav.navball_lut))))
  /\ []((op.name = "navball_render") => ~op.stale)
  /\ []((op.name = "navball_init" /\ ~op.ret) => ~nav.navball_enabled)
  /\ []((op.name = "navball_cleanup") => (nav.navball_texture = 0 /\ nav.navball_lut = 0))
  /\ [](\A p \in 1..Len(heap) : heap[p].frees <= 1 /\ (heap[p].live <=> heap[p].frees = 0))
  /\ [](\A p \in {nav.navball_texture, nav.navball_lut} : p = 0 \/ p <= Len(heap))
  /\ [][(op'.name = "navball_render"
          /\ (~nav.navball_enabled \/ nav.navball_texture = 0 \/ nav.navball_lut = 0))
        => (op'.returned /\ ~op'.ret /\ fb' = fb)]_vars

\* a render refused after navball_cleanup, the frame drawn before still in
\* the framebuffer and both blocks freed
C9_Witness ==
  /\ op.name = "navball_render"
  /\ op.returned /\ ~op.ret
  /\ nav.navball_enabled
  /\ nav.navball_texture = 0 /\ nav.navball_lut = 0
  /\ fb.pix # ClearPixels
  /\ Len(heap) = 2
  /\ \A p \in 1..Len(heap) : ~heap[p].live

LutBlocks == {p \in 1..Len(heap) : heap[p].kind = "lut"}

\* C10: in every lookup table entry (x, y) is valid exactly when
\* (x - size/2)^2 + (y - size/2)^2 <= (size/2)^2 with the exact half size/2
\* (stated on doubled coordinates); two tables of the same size agree in
\* every validity flag and sphere point; no step changes a table.
C10_LutIsFunctionOfSize ==
  /\ [](\A p \in LutBlocks :
          LET lut == heap[p].data
          IN /\ DOMAIN lut.entries = 0..(lut.size * lut.size - 1)
             /\ \A x \in 0..(lut.size - 1), y \in 0..(lut.size - 1) :
                  lut.entries[y * lut.size + x].valid <=>
                    ((2 * x - lut.size) * (2 * x - lut.size)
                       + (2 * y - lut.size) * (2 * y - lut.size)
                     <= lut.size * lut.size))
  /\ [](\A p \in LutBlocks, q \in LutBlocks :
          heap[p].data.size = heap[q].data.size => heap[p].data = heap[q].data)
  /\ [][\A p \in LutBlocks : heap'[p].data = heap[p].data]_vars

\* two tables of the odd size 3 built one after the other and a frame
\* rendered from the second
C10_Witness ==
  /\ Cardinality({p \in LutBlocks : heap[p].data.size = 3}) = 2
  /\ \E p \in LutBlocks :
       /\ heap[p].live
       /\ \E i \in DOMAIN heap[p].data.entries : heap[p].data.entries[i].valid
       /\ \E i \in DOMAIN heap[p].data.entries : ~heap[p].data.entries[i].valid
  /\ op.name = "navball_render" /\ op.ret

(***************************************************************************)
(* The frame loop: the host has initialised the plugin and now alternates  *)
(* wasm_osd_update_state and wasm_osd_render                               *)
(***************************************************************************)

\* entry point calls per run, the wasm_osd_init included
MaxFrameCalls == 5

\* the configurations the host initialised the plugin with
FrameConfigs == {FullConfig, CrosshairOnlyConfig, NoCrosshairConfig, HiddenConfig}

\* the state wasm_osd_init leaves when it returns 0
InitFrames ==
  /\ \E config \in FrameConfigs :
       /\ ctx = osd_init(ZeroContext, <<config>>, AllFonts).ctx
       /\ op = Inited(0, Found(<<config>>, AllFonts))
  /\ fb = Mem(ClearPixels, {})
  /\ prev_fb = ClearPixels
  /\ req = {}
  /\ calls = [NoCalls EXCEPT !.init = 1, !.ready = TRUE, !.limit = MaxFrameCalls]
  /\ nav = ZeroNav
  /\ heap = <<>>

NextFrames ==
  \/ wasm_osd_update_state
  \/ wasm_osd_render

SpecFrames == InitFrames /\ [][NextFrames]_vars

\* the last call was a wasm_osd_render that went past its early return
RenderedFrame == op.name = "wasm_osd_render" /\ ~op.skipped

\* C11: every wasm_osd_render that is not skipped clears the whole
\* framebuffer before the first widget runs: the frame it leaves is the one
\* the widgets draw on a framebuffer of transparent zeros (all zeros if the
\* render never reached its return), so no pixel of the frame before
\* survives unless this frame draws it again
C11_RenderStartsFromClearFramebuffer ==
  [][(op'.name = "wasm_osd_render" /\ ~op'.skipped) =>
       \E read \in RecOsdReads(ctx, op'.pb_ptr) :
         /\ read.trap = ~op'.returned
         /\ fb'.pix = IF read.trap THEN ClearPixels
                      ELSE render_widgets(ctx, Mem(ClearPixels, {}), op'.pb_ptr,
                                          read.rec_osd).fb.pix]_vars

\* a render has wiped a pixel the frame before had drawn
C11_Witness ==
  /\ RenderedFrame
  /\ op.returned
  /\ calls.render >= 2
  /\ fb.pix # ClearPixels
  /\ \E i \in 0..(NumPixels - 1) : prev_fb[i] # Transparent /\ fb.pix[i] = Transparent

(***************************************************************************)
(* The radar compass on its own: radar_compass_init, radar_compass_render  *)
(* and radar_compass_cleanup called on one context and one framebuffer     *)
(***************************************************************************)

\* compass calls in one run
MaxCompassCalls == 3

CardinalGreen == <<255, 0, 255, 0>>

\* three rings, both label fonts, every layer in a colour of its own
LayeredCompass ==
  [RadarCompassConfig(TRUE, 3) EXCEPT
     !.size = FbWidth - 2,
     !.ring_distances = <<1000, 5000, 20000, 0, 0>>,
     !.ring_label_font_path = RingFont,
     !.cardinal_font_path = CardinalFont,
     !.cardinal_color = CardinalGreen]

\* rings configured out of order, no labels
UnorderedCompass ==
  [RadarCompassConfig(TRUE, 4) EXCEPT
     !.size = FbWidth - 2,
     !.ring_distances = <<7000, 3000, 20000, 1000, 0>>]

\* a negative ring count
NegativeCompass ==
  [RadarCompassConfig(TRUE, -1) EXCEPT
     !.size = FbWidth - 2,
     !.ring_distances = <<2000, 1000, 0, 0, 0>>]

\* more rings configured than the context holds
CrowdedCompass ==
  [RadarCompassConfig(TRUE, 7) EXCEPT
     !.size = FbWidth - 2,
     !.ring_distances = <<2000, 1000, 2000, 1000, 4000>>]

DisabledCompass == [LayeredCompass EXCEPT !.enabled = FALSE]

BothBodies == CelestialIndicators(TRUE, TRUE, TRUE, SunSvg, MoonSvg)

MoonOnly == CelestialIndicators(TRUE, FALSE, TRUE, SunSvg, MoonSvg)

CompassFiles == {RingFont, CardinalFont, SunSvg, MoonSvg}

\* what radar_compass_init is called with: everything loads, the sun's icon
\* does not, the sun is switched off, celestial indicators are switched off
CompassSetups ==
  {<<LayeredCompass, CompassFiles, BothBodies>>,
   <<LayeredCompass, CompassFiles \ {SunSvg}, BothBodies>>,
   <<LayeredCompass, CompassFiles, MoonOnly>>,
   <<LayeredCompass, CompassFiles, CelestialConfig>>,
   <<UnorderedCompass, {}, CelestialConfig>>,
   <<CrowdedCompass, {}, CelestialConfig>>,
   <<NegativeCompass, {}, CelestialConfig>>,
   <<DisabledCompass, CompassFiles, BothBodies>>}

\* a record with a platform azimuth (degrees), a day camera field of view
\* (degrees; <<>> for no camera data), an observer position with a timestamp
\* (<<>> for no position) and a time (0 for none)
Telemetry(azimuth, fov, position, time) ==
  <<[ZeroState EXCEPT
       !.has_compass = TRUE,
       !.compass.azimuth = Fl(azimuth),
       !.has_camera_day = (fov # <<>>),
       !.camera_day.horizontal_fov_degrees = IF fov = <<>> THEN 0 ELSE Fl(fov[1]),
       !.has_actual_space_time = (position # <<>>),
       !.actual_space_time.timestamp = IF position = <<>> THEN 0 ELSE position[1],
       !.has_time = (time # 0),
       !.time.timestamp = time]>>

\* the records radar_compass_render is called with
CompassStates ==
  {NULL,
   Telemetry(0, <<>>, <<>>, 0),
   Telemetry(0, <<90>>, <<1>>, 0),
   Telemetry(90, <<90>>, <<1>>, 0),
   Telemetry(90, <<0>>, <<2>>, 0),
   Telemetry(180, <<-10>>, <<0>>, 1),
   Telemetry(0, <<45>>, <<0>>, 0),
   Telemetry(270, <<300>>, <<3>>, 0),
   Telemetry(0, <<90>>, <<>>, 1)}

\* what the last radar_compass_render was called with, what it returned and
\* the angle it handed to draw_fov_wedge
CompassFrame(ret, pb_state, fov_angle) ==
  [name |-> "radar_compass_render", ret |-> ret, pb_state |-> pb_state,
   fov_angle |-> fov_angle]

CompassInit == \E found \in CompassSetups : RadarCompassInitWith(found)

\* a configuration the parser has not filled in yet
UnparsedCompass ==
  [RadarCompassConfig(TRUE, 0) EXCEPT
     !.size = FbWidth - 2,
     !.ring_distances = <<0, 0, 0, 0, 0>>]

\* "distances" in the JSON: seven numbers, two numbers around something that
\* is no number, an empty array, and no array
RingArrays ==
  {Distances(TRUE, <<<<1000>>, <<2000>>, <<3000>>, <<4000>>, <<5000>>, <<6000>>, <<7000>>>>),
   Distances(TRUE, <<<<4000>>, <<>>, <<2000>>>>),
   Distances(TRUE, <<>>),
   Distances(FALSE, <<>>)}

\* the rings parsed from the JSON and handed to radar_compass_init
CompassParsedInit ==
  /\ WidgetBudget
  /\ \E distances \in RingArrays :
       \E config \in {parse_ring_distances(UnparsedCompass, distances)} :
         /\ ctx' = radar_compass_init(ctx, config, CelestialConfig, {})
         /\ op' = [name |-> "radar_compass_init", ret |-> TRUE, config |-> config,
                   found |-> {}, distances |-> distances]
  /\ calls' = [calls EXCEPT !.widget = @ + 1]
  /\ prev_fb' = fb.pix
  /\ UNCHANGED <<fb, req, nav, heap>>

RadarCompassRender ==
  /\ WidgetBudget
  /\ \E pb_state \in CompassStates :
       \E w \in {radar_compass_render(ctx, fb, pb_state)} :
         /\ fb' = w.fb
         /\ op' = CompassFrame(w.rendered, pb_state,
                                CompassGeometry(ctx, pb_state).fov_angle)
  /\ calls' = [calls EXCEPT !.widget = @ + 1]
  /\ prev_fb' = fb.pix
  /\ UNCHANGED <<ctx, req, nav, heap>>

RadarCompassCleanup ==
  /\ WidgetBudget
  /\ ctx' = radar_compass_cleanup(ctx)
  /\ op' = Called("radar_compass_cleanup", 0)
  /\ calls' = [calls EXCEPT !.widget = @ + 1]
  /\ prev_fb' = fb.pix
  /\ UNCHANGED <<fb, req, nav, heap>>

InitCompass ==
  /\ fb = Mem(ClearPixels, {})
  /\ prev_fb = ClearPixels
  /\ req = {}
  /\ op = Called("load", 0)
  /\ ctx = [ZeroContext EXCEPT !.framebuffer = TRUE, !.width = FbWidth, !.height = FbHeight]
  /\ calls = [NoCalls EXCEPT !.limit = MaxCompassCalls]
  /\ nav = ZeroNav
  /\ heap = <<>>

NextCompass ==
  \/ CompassInit
  \/ CompassParsedInit
  \/ RadarCompassRender
  \/ RadarCompassCleanup

SpecCompass == InitCompass /\ [][NextCompass]_vars

\* the last call was a radar_compass_render
CompassRendered == op.name = "radar_compass_render"

\* an empty framebuffer, and the pixels a drawing covers on it
EmptyFb == Mem(ClearPixels, {})

Covered(m) == {i \in 0..(NumPixels - 1) : m.pix[i] # Transparent}

Layer(cover, color) == [cover |-> cover, color |-> color]

\* the colour a body's icon is painted in
IconColor(c, svg, g, body) ==
  LET box == IndicatorBox(c, g.cx, g.cy, g.radius_x, g.radius_y, g.rotation_deg,
                          body.azimuth, body.altitude)
  IN IF svg = <<>> THEN Transparent
     ELSE <<ToInt(svg[1][1] * box.alpha), svg[1][2], svg[1][3], svg[1][4]>>

\* the layers of one compass frame, back to front: rings, ring labels, the
\* wedge's fill and outline, cardinal labels, sun, moon; each with the pixels
\* it covers when drawn alone
CompassLayers(c, pb_state) ==
  LET g == CompassGeometry(c, pb_state)
      half_fov == g.fov_angle \div 2
      sky == celestial_calculate(CelestialTimestamp(pb_state), <<>>)
      sun_only == [c EXCEPT !.celestial_show_moon = FALSE]
      moon_only == [c EXCEPT !.celestial_show_sun = FALSE]
  IN <<Layer(Covered(draw_rings(EmptyFb, c, g.cx, g.cy, g.radius_x, g.radius_y)),
             c.radar_compass_ring_color),
       Layer(Covered(draw_ring_labels(EmptyFb, c, g.cx, g.cy, g.radius_x, g.radius_y)),
             c.radar_compass_ring_color),
       Layer(Covered(Blit(EmptyFb,
                          draw_ellipse_wedge_filled(g.cx, g.cy, g.radius_x, g.radius_y,
                                                    -half_fov, half_fov),
                          Opaque)),
             c.radar_compass_fov_fill_color),
       Layer(Covered(Blit(EmptyFb,
                          draw_ellipse_wedge_outline(g.cx, g.cy, g.radius_x, g.radius_y,
                                                     -half_fov, half_fov,
                                                     c.radar_compass_fov_outline_thickness),
                          Opaque)),
             c.radar_compass_fov_outline_color),
       Layer(Covered(draw_cardinals(EmptyFb, c, g.cx, g.cy, g.radius_x, g.radius_y,
                                    g.rotation_deg)),
             c.radar_compass_cardinal_color),
       Layer(Covered(draw_celestial_indicators(EmptyFb, sun_only, pb_state, g.cx, g.cy,
                                               g.radius_x, g.radius_y, g.rotation_deg)),
             IconColor(c, c.celestial_sun_svg, g, sky.sun)),
       Layer(Covered(draw_celestial_indicators(EmptyFb, moon_only, pb_state, g.cx, g.cy,
                                               g.radius_x, g.radius_y, g.rotation_deg)),
             IconColor(c, c.celestial_moon_svg, g, sky.moon))>>

\* pixel i after the first k layers have been composited over what was there
RECURSIVE Composited(_, _, _, _)
Composited(layers, below, i, k) ==
  IF k = 0 THEN below[i]
  ELSE LET under == Composited(layers, below, i, k - 1)
       IN IF i \in layers[k].cover THEN BlendColor(layers[k].color, under) ELSE under

FovFillCover(c, pb_state) ==
  LET g == CompassGeometry(c, pb_state)
      half_fov == g.fov_angle \div 2
  IN Covered(Blit(EmptyFb,
                  draw_ellipse_wedge_filled(g.cx, g.cy, g.radius_x, g.radius_y,
                                            -half_fov, half_fov),
                  Opaque))

\* the pixels of the framebuffer directly above and directly below the
\* compass centre that lie inside the ellipse
AboveCentre(g) ==
  {y * FbWidth + g.cx : y \in {v \in 0..(FbHeight - 1) : v < g.cy /\ Fl(g.cy - v) <= g.radius_y}}

BelowCentre(g) ==
  {y * FbWidth + g.cx : y \in {v \in 0..(FbHeight - 1) : v > g.cy /\ Fl(v - g.cy) <= g.radius_y}}

\* the same record with another platform azimuth
WithAzimuth(pb_state, azimuth) ==
  IF pb_state = NULL THEN NULL
  ELSE <<[pb_state[1] EXCEPT !.has_compass = TRUE, !.compass.azimuth = Fl(azimuth)]>>

\* C16: in every rendered frame whose field of view lies in (0, 360) the
\* wedge's fill covers the pixels directly above the compass centre inside
\* the ellipse and none directly below it, and is the same for every
\* platform azimuth
C16_FovWedgePointsUp ==
  (CompassRendered /\ ctx.radar_compass_enabled) =>
    LET g == CompassGeometry(ctx, op.pb_state)
        fill == FovFillCover(ctx, op.pb_state)
    IN (g.fov_angle > 0 /\ g.fov_angle < 360000) =>
         /\ AboveCentre(g) # {}
         /\ AboveCentre(g) \subseteq fill
         /\ BelowCentre(g) \cap fill = {}
         /\ \A azimuth \in {0, 90, 180, 270} :
              FovFillCover(ctx, WithAzimuth(op.pb_state, azimuth)) = fill

\* a frame with a 90 degree field of view whose fill covers the pixel below
\* the centre and not the one above it, and shows there in the framebuffer
C16_FillBelowCentre ==
  /\ CompassRendered
  /\ ctx.radar_compass_enabled
  /\ op.fov_angle = 90000
  /\ \E g \in {CompassGeometry(ctx, op.pb_state)} :
       \E fill \in {FovFillCover(ctx, op.pb_state)} :
         /\ AboveCentre(g) # {}
         /\ AboveCentre(g) \cap fill = {}
         /\ BelowCentre(g) # {}
         /\ BelowCentre(g) \subseteq fill
         /\ \E i \in BelowCentre(g) : fb.pix[i] # prev_fb[i]

\* the field of view radar_compass_render is to use for a record: the day
\* camera's when the record carries camera data with a positive value, 45
\* degrees otherwise
WedgeAngleFor(pb_state) ==
  IF pb_state # NULL /\ pb_state[1].has_camera_day
     /\ pb_state[1].camera_day.horizontal_fov_degrees > 0
  THEN pb_state[1].camera_day.horizontal_fov_degrees
  ELSE Fl(45)

\* the pixels draw_fov_wedge covers in one frame, fill and outline
FovWedgeCover(c, pb_state) ==
  LET g == CompassGeometry(c, pb_state)
  IN Covered(draw_fov_wedge(EmptyFb, [c EXCEPT !.radar_compass_fov_fill_color = Opaque,
                                               !.radar_compass_fov_outline_color = Opaque],
                            g.cx, g.cy, g.radius_x, g.radius_y, g.fov_angle))

\* C17: every rendered frame hands draw_fov_wedge the day camera's
\* horizontal field of view, or 45 degrees when the record is missing, has
\* no camera data or carries a value <= 0; the angle is positive and
\* draw_fov_wedge draws with it
C17_WedgeAngleFromCameraOrDefault ==
  (CompassRendered /\ ctx.radar_compass_enabled) =>
    /\ op.fov_angle = WedgeAngleFor(op.pb_state)
    /\ op.fov_angle > 0
    /\ FovWedgeCover(ctx, op.pb_state) # {}

\* frames drawn with the default: no record, no camera data, a zero and a
\* negative field of view; and a frame drawn with the camera's own value
C17_Witness ==
  /\ CompassRendered
  /\ ctx.radar_compass_enabled
  /\ op.ret
  /\ op.fov_angle = Fl(45)
  /\ op.pb_state # NULL
  /\ op.pb_state[1].has_camera_day
  /\ op.pb_state[1].camera_day.horizontal_fov_degrees < 0
  /\ FovWedgeCover(ctx, op.pb_state) # {}

\* the stored ring distances of a context and the largest of them
RingDistances(c) ==
  {c.radar_compass_ring_distances[i] : i \in 1..c.radar_compass_num_rings}

LargestDistance(c) == CHOOSE d \in RingDistances(c) : \A e \in RingDistances(c) : e <= d

\* the ellipse ring i is drawn as, given its radii
RingEllipse(c, g, radii) ==
  Covered(Blit(EmptyFb,
               draw_ellipse_outline(g.cx, g.cy, radii[1], radii[2],
                                    c.radar_compass_ring_thickness),
               Opaque))

\* ring_r is radius * d / d_max up to the resolution of the arithmetic: the
\* quotient d / d_max and the product are each rounded to a thousandth
ScaledRadius(ring_r, radius, d, d_max) ==
  /\ ring_r * d_max <= radius * d
  /\ radius * d - ring_r * d_max <= d_max * (radius \div 1000 + 1)

\* C18: in a rendered frame with n >= 1 positive ring distances in any
\* order, ring i is drawn as the ellipse of radii (radius_x * d_i / d_max,
\* radius_y * d_i / d_max); the ring of the largest distance has the radii
\* of the outer ellipse and no ring has larger ones
C18_RingsScaledToLargestDistance ==
  (/\ CompassRendered
   /\ ctx.radar_compass_enabled
   /\ ctx.radar_compass_num_rings >= 1
   /\ \A d \in RingDistances(ctx) : d > 0) =>
    LET g == CompassGeometry(ctx, op.pb_state)
        d == ctx.radar_compass_ring_distances
        d_max == LargestDistance(ctx)
        rings == [i \in 1..ctx.radar_compass_num_rings |->
                    RingRadii(ctx, g.radius_x, g.radius_y, i)] \o <<>>
    IN /\ \A i \in 1..Len(rings) :
            /\ ScaledRadius(rings[i][1], g.radius_x, d[i], d_max)
            /\ ScaledRadius(rings[i][2], g.radius_y, d[i], d_max)
            /\ rings[i][1] <= g.radius_x /\ rings[i][2] <= g.radius_y
            /\ d[i] = d_max => rings[i] = <<g.radius_x, g.radius_y>>
       /\ Covered(draw_rings(EmptyFb, [ctx EXCEPT !.radar_compass_ring_color = Opaque],
                             g.cx, g.cy, g.radius_x, g.radius_y))
            = UNION {RingEllipse(ctx, g, rings[i]) : i \in 1..Len(rings)}

\* a frame with the distances 1, 5 and 20 km: radii in the ratio 1 : 5 : 20,
\* the last ring being the outer ellipse
C18_Witness ==
  /\ CompassRendered
  /\ ctx.radar_compass_enabled
  /\ op.ret
  /\ ctx.radar_compass_num_rings = 3
  /\ SubSeq(ctx.radar_compass_ring_distances, 1, 3) = <<Fl(1), Fl(5), Fl(20)>>
  /\ \E g \in {CompassGeometry(ctx, op.pb_state)} :
       \E r \in {[i \in 1..3 |-> RingRadii(ctx, g.radius_x, g.radius_y, i)]} :
         /\ r[2][1] = 5 * r[1][1] /\ r[3][1] = 20 * r[1][1]
         /\ r[2][2] = 5 * r[1][2] /\ r[3][2] = 20 * r[1][2]
         /\ r[3] = <<g.radius_x, g.radius_y>>
         /\ r[1][1] > 0 /\ r[1][2] > 0
  /\ fb.pix # prev_fb

\* a frame whose largest distance is neither the first nor the last configured
C18_UnorderedRings ==
  /\ CompassRendered
  /\ ctx.radar_compass_enabled
  /\ ctx.radar_compass_num_rings = 4
  /\ ctx.radar_compass_ring_distances[1] < LargestDistance(ctx)
  /\ ctx.radar_compass_ring_distances[4] < LargestDistance(ctx)
  /\ fb.pix # prev_fb

RingIndices == 0..(RADAR_COMPASS_MAX_RINGS - 1)

\* C19: after radar_compass_init the stored ring count is at most
\* RADAR_COMPASS_MAX_RINGS whatever count the configuration held, and the
\* indices of ring_distances used by the parser, by radar_compass_init and
\* by the rendering of the rings and their labels lie in [0, 5)
C19_RingIndicesInBounds ==
  /\ ctx.radar_compass_num_rings <= RADAR_COMPASS_MAX_RINGS
  /\ DrawRingsAccesses(ctx) \cup DrawRingLabelsAccesses(ctx) \subseteq RingIndices
  /\ op.name = "radar_compass_init" =>
       /\ InitRingAccesses(op.config) \subseteq RingIndices
       /\ ctx.radar_compass_num_rings = ClampRings(op.config.num_rings)
       /\ "distances" \in DOMAIN op =>
            /\ ParseRingAccesses(op.distances) \subseteq RingIndices
            /\ op.config.num_rings <= RADAR_COMPASS_MAX_RINGS

\* a compass set up from a configuration of seven rings and drawn with five,
\* the last of them read from index 4
C19_Witness ==
  /\ CompassRendered
  /\ op.ret
  /\ ctx.radar_compass_num_rings = RADAR_COMPASS_MAX_RINGS
  /\ DrawRingsAccesses(ctx) = RingIndices
  /\ fb.pix # prev_fb

\* seven distances parsed: five stored
C19_SevenDistancesParsed ==
  /\ op.name = "radar_compass_init"
  /\ "distances" \in DOMAIN op
  /\ Len(op.distances.items) = 7
  /\ op.config.num_rings = 5
  /\ ParseRingAccesses(op.distances) = RingIndices
  /\ ctx.radar_compass_ring_distances = <<1000, 2000, 3000, 4000, 5000>>

Bodies == {"sun", "moon"}

\* what the context holds for a body: its show flag and its icon
ShowFlag(c, body) == IF body = "sun" THEN c.celestial_show_sun ELSE c.celestial_show_moon

Icon(c, body) == IF body = "sun" THEN c.celestial_sun_svg ELSE c.celestial_moon_svg

\* the pixels a body's marker covers in one frame
MarkerCover(c, pb_state, body) ==
  LET g == CompassGeometry(c, pb_state)
      only == IF body = "sun" THEN [c EXCEPT !.celestial_show_moon = FALSE]
              ELSE [c EXCEPT !.celestial_show_sun = FALSE]
  IN Covered(draw_celestial_indicators(EmptyFb, only, pb_state, g.cx, g.cy,
                                       g.radius_x, g.radius_y, g.rotation_deg))

\* the record carries an observer position
HasPosition(pb_state) == pb_state # NULL /\ pb_state[1].has_actual_space_time

\* the timestamp of the record's position, and the record's own time
PositionTimestamp(pb_state) == pb_state[1].actual_space_time.timestamp

RecordTime(pb_state) == IF pb_state[1].has_time THEN pb_state[1].time.timestamp ELSE 0

\* the conditions under which a body's marker is due, given the timestamp
\* the body's position is computed for
MarkerDue(c, pb_state, body, timestamp) ==
  /\ c.celestial_enabled
  /\ ShowFlag(c, body)
  /\ HasPosition(pb_state)
  /\ timestamp # 0
  /\ celestial_calculate(timestamp, <<>>)[body].valid
  /\ celestial_calculate(timestamp, <<>>)[body].altitude >= c.celestial_visibility_threshold
  /\ Icon(c, body) # <<>>

\* the frame of the same compass without celestial indicators
PlainFrame(c, m, pb_state) ==
  radar_compass_render([c EXCEPT !.celestial_enabled = FALSE], m, pb_state).fb.pix

\* C20 as stated: a marker is drawn exactly when celestial indicators are
\* enabled, the body's show flag is set, the record carries an observer
\* position whose timestamp is non-zero, the position computed for that
\* timestamp is valid and not below the threshold, and the icon is loaded
C20_MarkerNeedsPositionTimestamp ==
  (CompassRendered /\ ctx.radar_compass_enabled) =>
    \A body \in Bodies :
      MarkerCover(ctx, op.pb_state, body) # {}
        <=> /\ HasPosition(op.pb_state)
            /\ MarkerDue(ctx, op.pb_state, body, PositionTimestamp(op.pb_state))

\* C20: a marker is drawn exactly when celestial indicators are enabled, the
\* body's show flag is set, the record carries an observer position and a
\* non-zero timestamp (the position's, or the record's time when the
\* position's is zero), the position computed for it is valid and not below
\* the threshold, and the icon is loaded; in every frame render returns true
\* and the pixels outside the markers are those of the compass without
\* celestial indicators
C20_MarkerDrawnWhenDue ==
  (CompassRendered /\ ctx.radar_compass_enabled) =>
    /\ op.ret
    /\ \A body \in Bodies :
         MarkerCover(ctx, op.pb_state, body) # {}
           <=> /\ HasPosition(op.pb_state)
               /\ MarkerDue(ctx, op.pb_state, body,
                            IF PositionTimestamp(op.pb_state) # 0
                            THEN PositionTimestamp(op.pb_state)
                            ELSE RecordTime(op.pb_state))
    /\ \E plain \in {PlainFrame(ctx, Mem(prev_fb, {}), op.pb_state)} :
         \A i \in 0..(NumPixels - 1) :
           i \notin MarkerCover(ctx, op.pb_state, "sun")
                      \cup MarkerCover(ctx, op.pb_state, "moon")
             => fb.pix[i] = plain[i]

\* a frame with both bodies switched on and both icons loaded that shows the
\* sun and skips the moon, which is below the threshold
C20_Witness ==
  /\ CompassRendered
  /\ ctx.radar_compass_enabled
  /\ op.ret
  /\ ctx.celestial_enabled /\ ctx.celestial_show_sun /\ ctx.celestial_show_moon
  /\ ctx.celestial_sun_svg # <<>> /\ ctx.celestial_moon_svg # <<>>
  /\ HasPosition(op.pb_state)
  /\ PositionTimestamp(op.pb_state) # 0
  /\ MarkerCover(ctx, op.pb_state, "moon") = {}
  /\ \E i \in MarkerCover(ctx, op.pb_state, "sun") :
       fb.pix[i] # PlainFrame(ctx, Mem(prev_fb, {}), op.pb_state)[i]

\* a frame that skips the sun because its icon did not load and still draws
\* the rest of the compass
C20_IconMissing ==
  /\ CompassRendered
  /\ ctx.radar_compass_enabled
  /\ op.ret
  /\ ctx.celestial_enabled /\ ctx.celestial_show_sun
  /\ ctx.celestial_sun_svg = <<>>
  /\ HasPosition(op.pb_state)
  /\ celestial_calculate(PositionTimestamp(op.pb_state), <<>>).sun.valid
  /\ celestial_calculate(PositionTimestamp(op.pb_state), <<>>).sun.altitude
       >= ctx.celestial_visibility_threshold
  /\ PositionTimestamp(op.pb_state) # 0
  /\ MarkerCover(ctx, op.pb_state, "sun") = {}
  /\ fb.pix # prev_fb

\* a frame that shows the sun although the position's timestamp is zero: the
\* record's time is used instead
C20_TimeOfRecordUsed ==
  /\ CompassRendered
  /\ ctx.radar_compass_enabled
  /\ HasPosition(op.pb_state)
  /\ PositionTimestamp(op.pb_state) = 0
  /\ RecordTime(op.pb_state) # 0
  /\ MarkerCover(ctx, op.pb_state, "sun") # {}

(***************************************************************************)
(* The filled wedges on their own: draw_wedge_filled and                   *)
(* draw_ellipse_wedge_filled called once on a cleared framebuffer, with    *)
(* angles in either order, negative, and beyond a full turn                *)
(***************************************************************************)
WedgeAngles ==
  {-45000, -10000, 0, 10000, 45000, 90000, 135000, 180000, 270000, 350000, 360000, 370000}

WedgeRadii == {1500, 3000}

WedgeEllipseRadii == {<<3000, 1500>>, <<2000, 2000>>}

\* a centre inside the framebuffer and one beyond its corner
WedgeCentres == {<<2, 2>>, <<FbWidth, -1>>}

\* the arguments of the last filled wedge (radius_x = radius_y for the
\* circular one)
WedgeCall(name, cx, cy, radius_x, radius_y, start_angle_deg, end_angle_deg) ==
  [name |-> name, ret |-> 0, cx |-> cx, cy |-> cy, radius_x |-> radius_x,
   radius_y |-> radius_y, start_angle_deg |-> start_angle_deg,
   end_angle_deg |-> end_angle_deg]

WedgeFilled ==
  /\ op.name = "framebuffer_clear"
  /\ \E c \in WedgeCentres, r \in WedgeRadii, a \in WedgeAngles, b \in WedgeAngles :
     \E pts \in {draw_wedge_filled(c[1], c[2], r, a, b)} :
       /\ fb' = Rasterized(pts, Opaque)
       /\ req' = Points(pts)
       /\ op' = WedgeCall("draw_wedge_filled", c[1], c[2], r, r, a, b)
  /\ prev_fb' = fb.pix
  /\ UNCHANGED <<osdVars, navVars>>

EllipseWedgeFilled ==
  /\ op.name = "framebuffer_clear"
  /\ \E c \in WedgeCentres, rr \in WedgeEllipseRadii, a \in WedgeAngles, b \in WedgeAngles :
     \E pts \in {draw_ellipse_wedge_filled(c[1], c[2], rr[1], rr[2], a, b)} :
       /\ fb' = Rasterized(pts, Opaque)
       /\ req' = Points(pts)
       /\ op' = WedgeCall("draw_ellipse_wedge_filled", c[1], c[2], rr[1], rr[2], a, b)
  /\ prev_fb' = fb.pix
  /\ UNCHANGED <<osdVars, navVars>>

NextWedge ==
  \/ WedgeFilled
  \/ EllipseWedgeFilled

SpecWedge == InitPrim /\ [][NextWedge]_vars

\* the last call drew a filled wedge
WedgeDrawn == op.name \in {"draw_wedge_filled", "draw_ellipse_wedge_filled"}

\* angles as codes of 8 per degree, exact for multiples of half a degree
AngleCode(deg) == deg \div 125

\* the compass bearing of the pixel at offset (x, y) from the centre, y
\* pointing down: 0 is up, 90 degrees is right
Bearing(x, y) == (720 - PixelAngle(x, y)) % 2880

\* the direction of offset (x, y) lies in the sector swept clockwise from
\* start to end
InSector(start, end, x, y) ==
  (Bearing(x, y) - AngleCode(start)) % 2880 <= (AngleCode(end) - AngleCode(start)) % 2880

\* offset (x, y) is within the radius / the unit ellipse of the last wedge
WithinWedgeRadius(x, y) ==
  IF op.name = "draw_wedge_filled"
  THEN (x * x + y * y) * 1000000 <= op.radius_x * op.radius_x
  ELSE ~OutsideEllipse(x, y, op.radius_x, op.radius_y)

\* C13: a filled wedge whose angles are not a whole number of turns apart
\* blends exactly the pixels within the radius (the unit ellipse) whose
\* direction from the centre lies in the sector swept clockwise from
\* start_angle to end_angle, 0 degrees being up and 90 degrees right; so a
\* wedge from 0 to 90 degrees asks for no pixel below or left of the centre
C13_FilledWedgeIsClockwiseSector ==
  (WedgeDrawn /\ (op.end_angle_deg - op.start_angle_deg) % 360000 # 0) =>
    \A p \in Box(ToInt(op.radius_x), ToInt(op.radius_y)) \ {<<0, 0>>} :
      <<op.cx + p[1], op.cy + p[2]>> \in req
        <=> /\ WithinWedgeRadius(p[1], p[2])
            /\ InSector(op.start_angle_deg, op.end_angle_deg, p[1], p[2])

\* the wedge from 0 to 90 degrees at radius 3 with a pixel of the lower-left
\* quadrant among its pixels
C13_LowerLeftBlended ==
  /\ op.name = "draw_wedge_filled"
  /\ op.start_angle_deg = 0 /\ op.end_angle_deg = 90000 /\ op.radius_x = 3000
  /\ <<op.cx - 2, op.cy + 2>> \in req
  /\ <<op.cx + 1, op.cy - 1>> \notin req

\* C14: a filled wedge blends the same pixels whichever of its two angles
\* is given first
C14_FilledWedgeOrderIndependent ==
  WedgeDrawn =>
    req = Points(IF op.name = "draw_wedge_filled"
                 THEN draw_wedge_filled(op.cx, op.cy, op.radius_x,
                                        op.end_angle_deg, op.start_angle_deg)
                 ELSE draw_ellipse_wedge_filled(op.cx, op.cy, op.radius_x, op.radius_y,
                                                op.end_angle_deg, op.start_angle_deg))

\* a wedge called with its larger angle first that blended pixels, but not
\* every pixel within its radius
C14_Witness ==
  /\ WedgeDrawn
  /\ op.start_angle_deg > op.end_angle_deg
  /\ req # {}
  /\ \E p \in Box(ToInt(op.radius_x), ToInt(op.radius_y)) :
       WithinWedgeRadius(p[1], p[2]) /\ <<op.cx + p[1], op.cy + p[2]>> \notin req

\* an angle and the same angle a full turn on or back
SameDirection(deg) == {deg - 360000, deg, deg + 360000}

\* C15: the pixels of a filled circular wedge depend on its two angles only
\* modulo 360 degrees: replacing either angle by the same angle plus or
\* minus a full turn selects the same pixels
C15_FilledWedgeDependsOnAnglesModulo360 ==
  op.name = "draw_wedge_filled" =>
    \A a \in SameDirection(op.start_angle_deg), b \in SameDirection(op.end_angle_deg) :
      req = Points(draw_wedge_filled(op.cx, op.cy, op.radius_x, a, b))

\* the wedge from 10 to 350 degrees blends nothing, the same wedge given as
\* 10 to -10 degrees blends pixels
C15_WrappingWedgeEmpty ==
  /\ op.name = "draw_wedge_filled"
  /\ op.start_angle_deg = 10000 /\ op.end_angle_deg = 350000
  /\ req = {}
  /\ draw_wedge_filled(op.cx, op.cy, op.radius_x, 10000, -10000) # <<>>

(***************************************************************************)
(* The celestial marker on its own: draw_celestial_indicator called once   *)
(* on a cleared framebuffer for bodies at every altitude                    *)
(***************************************************************************)
\* altitudes from the nadir to the zenith in steps of five degrees, and the
\* altitudes next to the horizon
MarkerAltitudes == {Fl(5 * k) : k \in -18..18} \cup {-1, 1, -500, 500}

\* body azimuths and label rotations (the negated platform azimuth), degrees
MarkerAzimuths == {0, 90, 135, 270}

MarkerRotations == {0, -90, -135}

\* compass diameters in pixels and configured indicator scales
MarkerCompassSizes == {4, 64}

MarkerScales == {500, 1000, 2000}

\* the compass of a given diameter at the top left of the framebuffer
MarkerContext(size, indicator_scale) ==
  [ZeroContext EXCEPT !.framebuffer = TRUE, !.width = FbWidth, !.height = FbHeight,
                      !.radar_compass_size = size,
                      !.celestial_indicator_scale = indicator_scale]

\* the arguments of the last draw_celestial_indicator and the box it drew in
MarkerCall(c, g, rotation_deg, body_azimuth, body_altitude) ==
  [name |-> "draw_celestial_indicator", ret |-> 0, size |-> c.radar_compass_size,
   indicator_scale |-> c.celestial_indicator_scale, geometry |-> g,
   rotation_deg |-> rotation_deg, body_azimuth |-> body_azimuth,
   body_altitude |-> body_altitude,
   box |-> IndicatorBox(c, g.cx, g.cy, g.radius_x, g.radius_y, rotation_deg,
                        body_azimuth, body_altitude)]

CelestialIndicator ==
  /\ op.name = "framebuffer_clear"
  /\ \E size \in MarkerCompassSizes, k \in MarkerScales, az \in MarkerAzimuths,
        rot \in MarkerRotations, alt \in MarkerAltitudes :
       \E c \in {MarkerContext(size, k)} :
       \E g \in {CompassGeometry(c, NULL)} :
         /\ fb' = draw_celestial_indicator(fb, c, <<SvgColor(SunSvg)>>, g.cx, g.cy,
                                           g.radius_x, g.radius_y, Fl(rot), Fl(az), alt)
         /\ op' = MarkerCall(c, g, Fl(rot), Fl(az), alt)
  /\ prev_fb' = fb.pix
  /\ UNCHANGED <<req, ctx, calls, nav, heap>>

\* platform azimuths in degrees
MarkerHeadings == {0, 45, 90, 180, 270}

\* the arguments of the last draw_cardinals and the anchors of N, E, S, W
CardinalsCall(c, g, azimuth) ==
  [name |-> "draw_cardinals", ret |-> 0, size |-> c.radar_compass_size,
   azimuth |-> azimuth, geometry |-> g,
   anchors |-> [i \in 1..4 |-> CardinalAnchor(g.cx, g.cy, g.radius_x, g.radius_y,
                                              g.rotation_deg, i)]]

\* draw_cardinals as radar_compass_render calls it for a platform azimuth
Cardinals ==
  /\ op.name = "framebuffer_clear"
  /\ \E size \in MarkerCompassSizes, azimuth \in MarkerHeadings :
       \E c \in {[MarkerContext(size, 1000) EXCEPT
                    !.font_radar_compass_cardinals = TRUE,
                    !.radar_compass_cardinal_font_size = 1,
                    !.radar_compass_cardinal_color = CardinalGreen]} :
       \E g \in {CompassGeometry(c, Telemetry(azimuth, <<>>, <<>>, 0))} :
         /\ fb' = draw_cardinals(fb, c, g.cx, g.cy, g.radius_x, g.radius_y, g.rotation_deg)
         /\ op' = CardinalsCall(c, g, azimuth)
  /\ prev_fb' = fb.pix
  /\ UNCHANGED <<req, ctx, calls, nav, heap>>

NextMarker == CelestialIndicator \/ Cardinals

SpecMarker == InitPrim /\ [][NextMarker]_vars

MarkerDrawn == op.name = "draw_celestial_indicator"

\* v is base + slope * altitude / 90 degrees up to the rounding of the
\* quotient and of the product (a thousandth each)
LinearInAltitude(v, base, slope, body_altitude) ==
  LET exact == base * 90000 + slope * body_altitude
  IN v * 90000 - exact <= 2 * 90000 /\ exact - v * 90000 <= 2 * 90000

\* the bounds of the marker: opacity in [0.2, 1.0], altitude scale in
\* [0.4, 1.5], at least 8 pixels
MarkerWithinBounds ==
  /\ op.box.alpha >= 200 /\ op.box.alpha <= 1000
  /\ AltitudeScale(op.body_altitude) >= 400 /\ AltitudeScale(op.body_altitude) <= 1500
  /\ op.box.size >= 8

\* C21 as stated: from the horizon upward (altitude >= 0) the scale rises
\* linearly from 1.0 to 1.5 with opacity 1.0; below the horizon the scale
\* falls from 0.7 to 0.4 and the opacity from 0.5 to the floor 0.2
C21_HorizonCountsAsAbove ==
  MarkerDrawn =>
    /\ MarkerWithinBounds
    /\ IF op.body_altitude >= 0
       THEN /\ LinearInAltitude(AltitudeScale(op.body_altitude), 1000, 500, op.body_altitude)
            /\ op.box.alpha = 1000
       ELSE /\ LinearInAltitude(AltitudeScale(op.body_altitude), 700, 300, op.body_altitude)
            /\ LinearInAltitude(op.box.alpha, 500, 300, op.body_altitude)

\* C21: for every altitude in [-90, 90] degrees: above the horizon
\* (altitude > 0) the scale is 1.0 + 0.5 * altitude / 90 with opacity 1.0;
\* at and below the horizon the scale is 0.7 + 0.3 * altitude / 90 and the
\* opacity 0.5 + 0.3 * altitude / 90, not below 0.2; opacity lies in
\* [0.2, 1.0], the scale in [0.4, 1.5] and the marker is at least 8 pixels
C21_MarkerScaleAndOpacity ==
  MarkerDrawn =>
    /\ MarkerWithinBounds
    /\ IF op.body_altitude > 0
       THEN /\ LinearInAltitude(AltitudeScale(op.body_altitude), 1000, 500, op.body_altitude)
            /\ op.box.alpha = 1000
       ELSE /\ LinearInAltitude(AltitudeScale(op.body_altitude), 700, 300, op.body_altitude)
            /\ LinearInAltitude(op.box.alpha, 500, 300, op.body_altitude)
    /\ op.box.size = IF ToInt((op.size \div 8)
                              * FMul(AltitudeScale(op.body_altitude), op.indicator_scale)) < 8
                     THEN 8
                     ELSE ToInt((op.size \div 8)
                                * FMul(AltitudeScale(op.body_altitude), op.indicator_scale))

\* a marker at the nadir: scale 0.4, opacity at its floor 0.2, drawn 8
\* pixels wide and faint in the framebuffer
C21_Witness ==
  /\ MarkerDrawn
  /\ op.body_altitude = Fl(-90)
  /\ AltitudeScale(op.body_altitude) = 400
  /\ op.box.alpha = 200
  /\ op.box.size = 8
  /\ \E i \in 0..(NumPixels - 1) : fb.pix[i] # Transparent /\ fb.pix[i][1] < 255

\* a body exactly on the horizon: scale 0.7 and opacity 0.5
C21_OnTheHorizon ==
  /\ MarkerDrawn
  /\ op.body_altitude = 0
  /\ AltitudeScale(op.body_altitude) = 700
  /\ op.box.alpha = 500

\* a marker at the zenith that is larger than the minimum: scale 1.5
C21_AtTheZenith ==
  /\ MarkerDrawn
  /\ op.body_altitude = Fl(90)
  /\ AltitudeScale(op.body_altitude) = 1500
  /\ op.box.alpha = 1000
  /\ op.box.size > 8

(***************************************************************************)
(* The celestial coordinate engine: celestial_to_navball_coords            *)
(*                                                                         *)
(*   A double is a record [v, s]: v is its value in millionths and s its   *)
(*   sign (-1, 0, 1).  The sign is kept apart from the value because the   *)
(*   code compares a double with 0.0 and the doubles that are zero in      *)
(*   exact arithmetic are not: DEG_TO_RAD(90) is the double just below     *)
(*   pi/2, so that cos(DEG_TO_RAD(90)) is 6.1e-17 and positive.            *)
(***************************************************************************)
Sgn(n) == IF n > 0 THEN 1 ELSE IF n < 0 THEN -1 ELSE 0

Dbl(v, s) == [v |-> v, s |-> IF v # 0 THEN Sgn(v) ELSE s]

\* the product of two values in millionths, truncated
MMul(a, b) ==
  LET p == Abs(a) * (Abs(b) \div 1000) + (Abs(a) * (Abs(b) % 1000)) \div 1000
  IN IF (a < 0) = (b < 0) THEN p \div 1000 ELSE -(p \div 1000)

DMul(a, b) == [v |-> MMul(a.v, b.v), s |-> a.s * b.s]

\* the sign of a sum is the sign of its value; where the value is below a
\* millionth it is the common sign of the terms (0 where they disagree)
DSum(a, b, c) ==
  LET v == a.v + b.v + c.v
      signs == {a.s, b.s, c.s} \ {0}
  IN [v |-> v,
      s |-> IF v # 0 THEN Sgn(v) ELSE IF signs = {1} THEN 1 ELSE IF signs = {-1} THEN -1 ELSE 0]

\* sin and cos of DEG_TO_RAD(a) in double arithmetic, a in thousandths of
\* a degree within [-360, 360] degrees: sin(0) is 0, every other multiple
\* of 90 degrees leaves a residue with the sign of the gap between the
\* double DEG_TO_RAD(a) and the exact multiple of pi/2
SinResidue(a) == IF a = 180000 THEN 1 ELSE IF a = -180000 THEN -1 ELSE IF a = 360000 THEN -1 ELSE IF a = -360000 THEN 1 ELSE 0

CosResidue(a) == IF Abs(a) = 90000 THEN 1 ELSE IF Abs(a) = 270000 THEN -1 ELSE 0

sin(a) == Dbl(TableSin(a, 0), SinResidue(a))

cos(a) == Dbl(TableSin(a, 180), CosResidue(a))

\* x east, y up, z north
horizontal_to_vector_up_and_north_swapped(azimuth, altitude) == [x |-> DMul(cos(altitude), sin(azimuth)), y |-> DMul(cos(altitude), cos(azimuth)), z |-> sin(altitude)]

horizontal_to_vector(azimuth, altitude) ==
  [x |-> DMul(cos(altitude), sin(azimuth)),
   y |-> sin(altitude),
   z |-> DMul(cos(altitude), cos(azimuth))]

\* sinf and cosf of half a float angle
HalfSin(a) == Dbl(SinDeg(a \div 2), 0)

HalfCos(a) == Dbl(CosDeg(a \div 2), 0)

Zero == Dbl(0, 0)

Neg(a) == [v |-> -a.v, s |-> -a.s]

\* the quaternion <<x, y, z, w>> of the rotations angles[1] about x,
\* angles[2] about y and angles[3] about z, composed in the order y, x, z
glm_euler_yxz_quat(angles) ==
  LET xs == HalfSin(angles[1])
      xc == HalfCos(angles[1])
      ys == HalfSin(angles[2])
      yc == HalfCos(angles[2])
      zs == HalfSin(angles[3])
      zc == HalfCos(angles[3])
  IN <<DSum(DMul(DMul(xc, ys), zs), DMul(DMul(xs, yc), zc), Zero),
       DSum(DMul(DMul(xc, ys), zc), Neg(DMul(DMul(xs, yc), zs)), Zero),
       DSum(DMul(DMul(xc, yc), zs), Neg(DMul(DMul(xs, ys), zc)), Zero),
       DSum(DMul(DMul(xc, yc), zc), DMul(DMul(xs, ys), zs), Zero)>>

Twice(a) == [v |-> 2 * a.v, s |-> a.s]

\* the rotation matrix of a unit quaternion, dest[column][row]
glm_quat_mat3(q) ==
  LET xx == Twice(DMul(q[1], q[1]))
      xy == Twice(DMul(q[1], q[2]))
      wx == Twice(DMul(q[4], q[1]))
      yy == Twice(DMul(q[2], q[2]))
      yz == Twice(DMul(q[2], q[3]))
      wy == Twice(DMul(q[4], q[2]))
      zz == Twice(DMul(q[3], q[3]))
      xz == Twice(DMul(q[1], q[3]))
      wz == Twice(DMul(q[4], q[3]))
      one == Dbl(1000000, 1)
  IN <<<<DSum(one, Neg(yy), Neg(zz)), DSum(xy, wz, Zero), DSum(xz, Neg(wy), Zero)>>,
       <<DSum(xy, Neg(wz), Zero), DSum(one, Neg(xx), Neg(zz)), DSum(yz, wx, Zero)>>,
       <<DSum(xz, wy, Zero), DSum(yz, Neg(wx), Zero), DSum(one, Neg(xx), Neg(yy))>>>>

\* m.m[i] = cglm_mat3[i / 3][i % 3] for i = 0..8, as the sequence m[1..9]
create_rotation_matrix(azimuth, elevation, bank) ==
  LET cglm_mat3 == glm_quat_mat3(glm_euler_yxz_quat(<<elevation, azimuth, bank>>))
  IN [i \in 1..9 |-> cglm_mat3[((i - 1) \div 3) + 1][((i - 1) % 3) + 1]]

mat3_mul_vec3(m, v) ==
  [x |-> DSum(DMul(m[1], v.x), DMul(m[2], v.y), DMul(m[3], v.z)),
   y |-> DSum(DMul(m[4], v.x), DMul(m[5], v.y), DMul(m[6], v.z)),
   z |-> DSum(DMul(m[7], v.x), DMul(m[8], v.y), DMul(m[9], v.z))]

\* (int)(d * n) for a double d and an int n
TruncTimes(d, n) == IF d.v * n >= 0 THEN (d.v * n) \div 1000000 ELSE -((-(d.v * n)) \div 1000000)

Projected(rotated, navball_center_x, navball_center_y, navball_radius) ==
  [is_front |-> rotated.z.s > 0,
   screen_x |-> navball_center_x + TruncTimes(rotated.x, navball_radius),
   screen_y |-> navball_center_y - TruncTimes(rotated.y, navball_radius)]

celestial_to_navball_coords(azimuth, altitude, platform_azimuth, platform_elevation, platform_bank, navball_center_x, navball_center_y, navball_radius) ==
  Projected(mat3_mul_vec3(create_rotation_matrix(platform_azimuth, platform_elevation,
                                                 platform_bank),
                          horizontal_to_vector(azimuth, altitude)),
            navball_center_x, navball_center_y, navball_radius)

\* body positions, platform attitudes <<azimuth, elevation, bank>> (degrees)
\* and navballs <<center_x, center_y, radius>>
BodyAzimuths == {0, 45, 90, 180, 270}

BodyAltitudes == {90, 45, 0, -20, -90}

Attitudes == {<<0, 0, 0>>, <<30, 0, 0>>, <<0, 20, 0>>, <<0, 0, 35>>, <<30, 20, 10>>}

Navballs == {<<2, 2, 2>>, <<10, 12, 8>>, <<40, 36, 32>>}

NavballCoords(azimuth, altitude, attitude, navball) ==
  [name |-> "celestial_to_navball_coords", ret |-> 0,
   azimuth |-> azimuth, altitude |-> altitude, attitude |-> attitude,
   navball |-> navball,
   result |-> celestial_to_navball_coords(Fl(azimuth), Fl(altitude), Fl(attitude[1]),
                                          Fl(attitude[2]), Fl(attitude[3]),
                                          navball[1], navball[2], navball[3])]

CelestialToNavball ==
  /\ op.name = "framebuffer_clear"
  /\ \E azimuth \in BodyAzimuths, altitude \in BodyAltitudes, attitude \in Attitudes,
        navball \in Navballs :
       op' = NavballCoords(azimuth, altitude, attitude, navball)
  /\ UNCHANGED <<fb, prev_fb, req, ctx, calls, nav, heap>>

NextCelestial == CelestialToNavball

SpecCelestial == InitPrim /\ [][NextCelestial]_vars

ZenithAtIdentity ==
  /\ op.name = "celestial_to_navball_coords"
  /\ op.azimuth = 0
  /\ op.altitude = 90
  /\ op.attitude = <<0, 0, 0>>

\* C22 as stated: the zenith at identity attitude is reported on the front
\* and at the vertical centre of the widget (the row of the centre, which
\* is what "vertical center" names for the level line)
C22_ZenithAtVerticalCentre ==
  ZenithAtIdentity => op.result.is_front /\ op.result.screen_y = op.navball[2]

\* C22: for a body at azimuth 0, altitude 90 degrees (the zenith) and the
\* identity attitude celestial_to_navball_coords reports is_front and a
\* position in the column of the centre, one radius above it: the top of
\* the ball
C22_ZenithAtTopOfBall ==
  ZenithAtIdentity =>
    /\ op.result.is_front
    /\ op.result.screen_x = op.navball[1]
    /\ op.result.screen_y = op.navball[2] - op.navball[3]

\* the zenith at identity attitude on the largest ball: 32 rows above the
\* centre, and not in the row of the centre
C22_Witness ==
  /\ ZenithAtIdentity
  /\ op.navball = <<40, 36, 32>>
  /\ op.result = [is_front |-> TRUE, screen_x |-> 40, screen_y |-> 4]
  /\ op.result.screen_y # op.navball[2]

(***************************************************************************)
(* The rotation of the cardinal labels and of the celestial markers        *)
(***************************************************************************)
CardinalsDrawn == op.name = "draw_cardinals"

\* the points 85% of the radii above, right of, below and left of the centre
CardinalSlots(g) ==
  <<<<g.cx, g.cy - ToInt(FMul(g.radius_y, 850))>>,
    <<g.cx + ToInt(FMul(g.radius_x, 850)), g.cy>>,
    <<g.cx, g.cy + ToInt(FMul(g.radius_y, 850))>>,
    <<g.cx - ToInt(FMul(g.radius_x, 850)), g.cy>>>>

\* the point 85% of the radii from the centre at 45 degrees to the upper
\* left (sin 45 = cos 45 = 0.707107)
UpperLeft(g) ==
  <<g.cx - TruncMul(FMul(g.radius_x, 850), 707107),
    g.cy - TruncMul(FMul(g.radius_y, 850), 707107)>>

\* C23: the cardinal labels N, E, S, W are anchored at the compass angles
\* -A, 90 - A, 180 - A, 270 - A (A the platform azimuth) at 85% of the
\* radii: at A = 0 N is straight above the centre, at A = 90 N is to its
\* left, every quarter turn of the platform moves each label a quarter turn
\* the other way; a celestial marker of a body whose azimuth is A is centred
\* straight above the centre, at 90% of the vertical radius; each label is
\* drawn centred on its anchor
C23_LabelsRotateAgainstHeading ==
  /\ CardinalsDrawn =>
       /\ op.geometry.rotation_deg = -Fl(op.azimuth)
       /\ op.azimuth % 90 = 0 =>
            \A i \in 1..4 :
              op.anchors[i] = CardinalSlots(op.geometry)[((i - 1 - op.azimuth \div 90) % 4) + 1]
       /\ op.azimuth = 0 => op.anchors[1] = CardinalSlots(op.geometry)[1]
       /\ op.azimuth = 90 => op.anchors[1] = CardinalSlots(op.geometry)[4]
       /\ op.azimuth = 45 => op.anchors[1] = UpperLeft(op.geometry)
       /\ \A i \in 1..4 :
            InBounds(op.anchors[i][1], op.anchors[i][2]) =>
              fb.pix[op.anchors[i][2] * FbWidth + op.anchors[i][1]] = CardinalGreen
  /\ MarkerDrawn /\ op.body_azimuth + op.rotation_deg = 0 =>
       /\ op.box.x + op.box.size \div 2 = op.geometry.cx
       /\ op.box.y + op.box.size \div 2 = op.geometry.cy - ToInt(FMul(op.geometry.radius_y, 900))

\* the platform heading east on the large compass: N is 27 pixels to the
\* left of the centre (32, 16), E straight above it
C23_Witness ==
  /\ CardinalsDrawn
  /\ op.azimuth = 90
  /\ op.size = 64
  /\ op.anchors[1] = <<5, 16>>
  /\ op.anchors[2] = <<32, 3>>

\* a body in the direction the platform heads (azimuth 135), drawn
\* straight above the centre of the large compass
C23_BodyAhead ==
  /\ MarkerDrawn
  /\ op.body_azimuth = Fl(135)
  /\ op.rotation_deg = -Fl(135)
  /\ op.size = 64
  /\ op.box.x + op.box.size \div 2 = 32
  /\ op.box.y + op.box.size \div 2 = 2

(***************************************************************************)
(* Lines on their own: draw_line called once on a cleared framebuffer      *)
(***************************************************************************)
\* endpoints inside and outside the framebuffer; thicknesses below one,
\* whole (odd and even) and fractional, in thousandths of a pixel
LineXs == -1..3

LineYs == -1..2

LineThicknesses == {-2000, 0, 500, 1000, 2000, 2500, 3000}

\* the arguments of the last draw_line, the centres of its stamps and the
\* draw_pixel calls it made, in program order
LineCall(x0, y0, x1, y1, thickness) ==
  [name |-> "draw_line", ret |-> 0, x0 |-> x0, y0 |-> y0, x1 |-> x1, y1 |-> y1,
   thickness |-> thickness,
   centres |-> LineCentres(x0, y0, x1, y1),
   pts |-> draw_line(x0, y0, x1, y1, thickness)]

Line ==
  /\ op.name = "framebuffer_clear"
  /\ \E x0 \in LineXs, y0 \in LineYs, x1 \in LineXs, y1 \in LineYs,
        thickness \in LineThicknesses :
       \E call \in {LineCall(x0, y0, x1, y1, thickness)} :
         /\ fb' = Rasterized(call.pts, Opaque)
         /\ req' = Points(call.pts)
         /\ op' = call
  /\ prev_fb' = fb.pix
  /\ UNCHANGED <<osdVars, navVars>>

NextLine == Line

SpecLine == InitPrim /\ [][NextLine]_vars

LineDrawn == op.name = "draw_line"

\* the draw_pixel calls of step i of the walk (every step makes as many)
StampOf(i) ==
  LET k == Len(op.pts) \div Len(op.centres)
  IN {op.pts[j] : j \in ((i - 1) * k + 1)..(i * k)}

\* the square of a given side around a centre
Square(centre, side) ==
  {<<x, y>> : x \in (centre[1] - (side - 1) \div 2)..(centre[1] + side \div 2),
              y \in (centre[2] - (side - 1) \div 2)..(centre[2] + side \div 2)}

StampsAreSquaresOfSide(side) ==
  /\ Len(op.pts) = Len(op.centres) * side * side
  /\ \A i \in 1..Len(op.centres) :
       \/ StampOf(i) = Square(op.centres[i], side)
       \/ StampOf(i) = {<<p[1] - 1, p[2] - 1>> : p \in Square(op.centres[i], side)}

\* C24: at every step of the walk draw_line blends a square stamp whose
\* side is the thickness (thickness x thickness pixels) for every whole
\* thickness >= 1, and exactly one pixel, the centre, for a thickness < 1
C24_StampSideIsThickness ==
  LineDrawn =>
    /\ op.thickness >= 1000 /\ op.thickness % 1000 = 0 =>
         StampsAreSquaresOfSide(op.thickness \div 1000)
    /\ op.thickness < 1000 => StampsAreSquaresOfSide(1)

\* what the code does: the side of the stamp is 2 * (int)(thickness / 2) + 1
\* and the stamp is empty where that is negative
C24_StampSideIsOdd ==
  LineDrawn =>
    StampsAreSquaresOfSide(IF op.thickness <= -2000 THEN 0
                           ELSE 2 * ToInt(op.thickness \div 2) + 1)

\* a line of thickness 2.0 from (0,0) to (3,0): four stamps of nine pixels,
\* three rows high
C24_ThreeWide ==
  /\ LineDrawn
  /\ op.thickness = 2000
  /\ <<op.x0, op.y0, op.x1, op.y1>> = <<0, 0, 3, 0>>
  /\ Len(op.pts) = 4 * 9
  /\ {p[2] : p \in req} = {-1, 0, 1}
  /\ fb.pix[1 * FbWidth + 1] = Opaque

\* a line of thickness -2.0: the walk is made and no pixel is blended
C24_NothingDrawn ==
  /\ LineDrawn
  /\ op.thickness = -2000
  /\ Len(op.centres) = 4
  /\ req = {}
  /\ fb.pix = ClearPixels

Max(a, b) == IF a > b THEN a ELSE b

RoundCentres == {<<1, 2>>, <<-2, -1>>, <<3, 1>>}

\* radii and thicknesses in thousandths of a pixel: negative, zero,
\* fractional, whole
RoundRadii == {-1000, -500, 0, 500, 1000, 1500, 2000, 3000}

RoundThicknesses == {500, 1000, 1500, 2000, 3000, 6000}

\* <<radius_x, radius_y>>
RoundEllipseRadii == {<<0, 0>>, <<0, 2000>>, <<2000, 0>>, <<-1000, 2000>>, <<-500, 1000>>, <<2000, 1000>>}

\* <<start_angle_deg, end_angle_deg>>
RoundAngles == {<<0, 90000>>, <<-45000, 45000>>, <<90000, 270000>>, <<0, 360000>>}

\* the arguments of the last call and the draw_pixel calls it made, in
\* program order; a drawing operation returns nothing
RoundCall(name, centre, radius_x, radius_y, thickness, angles, pts) ==
  [name |-> name, ret |-> 0, cx |-> centre[1], cy |-> centre[2],
   radius_x |-> radius_x, radius_y |-> radius_y, thickness |-> thickness,
   angles |-> angles, pts |-> pts]

\* one call on the cleared framebuffer
RoundDraws(call) ==
  /\ op.name = "framebuffer_clear"
  /\ fb' = Rasterized(call.pts, Opaque)
  /\ req' = Points(call.pts)
  /\ op' = call
  /\ prev_fb' = fb.pix
  /\ UNCHANGED <<osdVars, navVars>>

Round_filled_circle ==
  \E c \in RoundCentres, r \in RoundRadii :
    RoundDraws(RoundCall("draw_filled_circle", c, r, r, 0, <<>>,
                         draw_filled_circle(c[1], c[2], r)))

Round_circle_outline ==
  \E c \in RoundCentres, r \in RoundRadii, t \in RoundThicknesses :
    RoundDraws(RoundCall("draw_circle_outline", c, r, r, t, <<>>,
                         draw_circle_outline(c[1], c[2], r, t)))

Round_wedge_filled ==
  \E c \in RoundCentres, r \in RoundRadii, a \in RoundAngles :
    RoundDraws(RoundCall("draw_wedge_filled", c, r, r, 0, a,
                         draw_wedge_filled(c[1], c[2], r, a[1], a[2])))

Round_ellipse_wedge_filled ==
  \E c \in RoundCentres, rr \in RoundEllipseRadii, a \in RoundAngles :
    RoundDraws(RoundCall("draw_ellipse_wedge_filled", c, rr[1], rr[2], 0, a,
                         draw_ellipse_wedge_filled(c[1], c[2], rr[1], rr[2], a[1], a[2])))

NextRound ==
  \/ Round_filled_circle
  \/ Round_circle_outline
  \/ Round_wedge_filled
  \/ Round_ellipse_wedge_filled

SpecRound == InitPrim /\ [][NextRound]_vars

RoundNames ==
  {"draw_filled_circle", "draw_circle_outline", "draw_wedge_filled",
   "draw_ellipse_wedge_filled"}

\* C25: no drawing operation reports an error, and a call with a radius
\* <= 0 (either radius of an ellipse) blends no pixel at all, whatever the
\* centre, the thickness and the angles
C25_NoPixelForRadiusUpToZero ==
  op.name \in RoundNames =>
    /\ op.ret = 0
    /\ op.radius_x <= 0 \/ op.radius_y <= 0 =>
         /\ op.pts = <<>>
         /\ fb.pix = ClearPixels

\* what the code does: a filled circle or wedge draws nothing when its
\* radius is -1 or less (an ellipse: when either radius is), an outline
\* when radius + thickness / 2 is
C25_NoPixelForRadiusBelowMinusOne ==
  op.name \in RoundNames =>
    /\ op.ret = 0
    /\ (IF op.name = "draw_circle_outline" THEN op.radius_x + op.thickness \div 2 <= -1000
        ELSE op.radius_x <= -1000 \/ op.radius_y <= -1000) =>
         /\ op.pts = <<>>
         /\ fb.pix = ClearPixels

\* draw_filled_circle with radius 0 at (1,2): the centre pixel is blended
C25_CentreDrawnAtRadiusZero ==
  /\ op.name = "draw_filled_circle"
  /\ op.radius_x = 0
  /\ <<op.cx, op.cy>> = <<1, 2>>
  /\ op.pts = <<<<1, 2>>>>
  /\ fb.pix[2 * FbWidth + 1] = Opaque

\* draw_circle_outline with radius -1 and thickness 6: a disc of radius 2
C25_DiscAtNegativeRadius ==
  /\ op.name = "draw_circle_outline"
  /\ op.radius_x = -1000
  /\ op.thickness = 6000
  /\ <<op.cx, op.cy>> = <<1, 2>>
  /\ Len(op.pts) = 13
  /\ fb.pix[2 * FbWidth + 3] = Opaque

\* the pixels of the bounding box of the outer radius whose distance d from
\* the centre satisfies lo <= d <= hi (thousandths of a pixel, lo >= 0)
Annulus(cx, cy, lo, hi) ==
  IF hi < 0 THEN {}
  ELSE {<<cx + x, cy + y>> : <<x, y>> \in
          {p \in Box(hi \div 1000, hi \div 1000) :
             /\ (p[1] * p[1] + p[2] * p[2]) * 1000000 >= lo * lo
             /\ (p[1] * p[1] + p[2] * p[2]) * 1000000 <= hi * hi}}

OutlineDrawn == op.name = "draw_circle_outline"

\* C26: draw_circle_outline blends exactly the pixels of the bounding box
\* whose distance d from the centre satisfies
\* radius - thickness/2 <= d <= radius + thickness/2 (the inner bound not
\* below 0), for every radius and thickness, fractional and odd ones
\* included, and blends each of them once
C26_AnnulusOfHalfThickness ==
  OutlineDrawn =>
    /\ req = Annulus(op.cx, op.cy,
                     IF op.radius_x - op.thickness \div 2 < 0 THEN 0
                     ELSE op.radius_x - op.thickness \div 2,
                     op.radius_x + op.thickness \div 2)
    /\ Cardinality(req) = Len(op.pts)

\* what the code does: both bounds are truncated to whole pixels first
C26_AnnulusOfTruncatedBounds ==
  OutlineDrawn =>
    /\ req = Annulus(op.cx, op.cy,
                     IF ToInt(op.radius_x - op.thickness \div 2) < 0 THEN 0
                     ELSE Fl(ToInt(op.radius_x - op.thickness \div 2)),
                     IF op.radius_x + op.thickness \div 2 <= -1000 THEN -1000
                     ELSE Fl(ToInt(op.radius_x + op.thickness \div 2)))
    /\ Cardinality(req) = Len(op.pts)

\* radius 3, thickness 1 at (1,2): the pixel two to the right of the centre
\* is blended (d = 2 < 2.5) and the pixel at offset (3,1) is not
\* (d = 3.16 <= 3.5)
C26_RingShiftedInward ==
  /\ OutlineDrawn
  /\ op.radius_x = 3000
  /\ op.thickness = 1000
  /\ <<op.cx, op.cy>> = <<1, 2>>
  /\ <<3, 2>> \in req
  /\ <<4, 3>> \notin req
  /\ fb.pix[2 * FbWidth + 3] = Opaque
  /\ fb.pix[3 * FbWidth + 4] = Transparent

(***************************************************************************)
(* The pixels and the table entries of one navball frame                   *)
(***************************************************************************)
NavballFrameDrawn == op.name = "navball_render" /\ op.ret

CurrentLut == heap[nav.navball_lut].data

\* the pixels a layer drawn on a cleared framebuffer has blended
Painted(m) == {i \in 0..(NumPixels - 1) : m.pix[i] # Transparent}

SphereLayer ==
  SpherePixelsFrom(Mem(ClearPixels, {}), nav, <<heap[nav.navball_texture].data>>,
                   CurrentLut, 0)

LevelLayer == LevelMarker(Mem(ClearPixels, {}), nav, CurrentLut)

\* the framebuffer pixels at (navball_x + x, navball_y + y) for the table
\* entries (x, y) of the given rows that are valid
ValidPositions(rows) ==
  {(nav.navball_y + y) * FbWidth + nav.navball_x + x :
     <<x, y>> \in {p \in (0..(nav.navball_size - 1)) \X rows :
                     /\ CurrentLut.entries[p[2] * nav.navball_size + p[1]].valid
                     /\ InBounds(nav.navball_x + p[1], nav.navball_y + p[2])}}

\* C27: navball_render writes sphere pixels only at the screen positions
\* (navball_x + x, navball_y + y) whose table entry (x, y) is valid and
\* which lie inside the framebuffer; the level line is drawn only on the
\* row navball_y + size/2 and only in the columns whose entry in row size/2
\* is valid (so a pixel turns white in a frame only there); every table
\* index navball_render reads lies in [0, size * size) of the table
\* allocated
C27_NavballPixelsFollowLut ==
  NavballFrameDrawn =>
    /\ CurrentLut.size = nav.navball_size
    /\ op.reads # {}
    /\ op.reads \subseteq 0..(CurrentLut.size * CurrentLut.size - 1)
    /\ op.reads \subseteq DOMAIN CurrentLut.entries
    /\ Painted(SphereLayer) = ValidPositions(0..(nav.navball_size - 1))
    /\ SphereLayer.out = {}
    /\ nav.navball_show_level_marker =>
         /\ Painted(LevelLayer) = ValidPositions({nav.navball_size \div 2})
         /\ LevelLayer.out = {}
    /\ fb.out = {}
    /\ \A i \in 0..(NumPixels - 1) :
         fb.pix[i] = White /\ prev_fb[i] # White =>
           nav.navball_show_level_marker /\ i \in Painted(LevelLayer)

\* a frame of the navball of size 3 that hangs over the right edge: nine
\* entries read, the level line on row 2 in the one column that is valid
\* and inside, the invalid corner entry left alone
C27_Witness ==
  /\ NavballFrameDrawn
  /\ nav.navball_size = 3
  /\ nav.navball_show_level_marker
  /\ op.reads = 0..8
  /\ ~CurrentLut.entries[3].valid
  /\ fb.pix[2 * FbWidth + FbWidth - 1] = White
  /\ fb.pix[2 * FbWidth + FbWidth - 2] # White
  /\ fb.pix[1 * FbWidth + FbWidth - 2] = Transparent

(***************************************************************************)
(* The frame timing history of the variant info widget                     *)
(* (widgets/variant_info.c): delta_history, delta_history_add,             *)
(* delta_history_stats and the lines of variant_info_render that call them *)
(*                                                                         *)
(*   The ring holds DELTA_HISTORY_SIZE samples, 150 in the source; it is   *)
(*   scaled down here so that a run fills it and wraps.  Timestamps are    *)
(*   microseconds, deltas thousandths of a millisecond.  The static        *)
(*   delta_history is block 1 of the memory.                               *)
(***************************************************************************)
DELTA_HISTORY_SIZE == 3

DELTA_WINDOW_US == 5000000

\* calls of variant_info_render in one run
MaxHistoryCalls == 5

\* static ... delta_history = { 0 }
ZeroHistory ==
  [delta_ms |-> [i \in 0..(DELTA_HISTORY_SIZE - 1) |-> 0],
   timestamp_us |-> [i \in 0..(DELTA_HISTORY_SIZE - 1) |-> 0],
   write_idx |-> 0, count |-> 0]

\* the gap test of delta_history_add
GapBefore(h, timestamp_us) ==
  /\ h.count > 0
  /\ timestamp_us > h.timestamp_us[(h.write_idx - 1 + DELTA_HISTORY_SIZE) % DELTA_HISTORY_SIZE]
                    + DELTA_WINDOW_US

Stored(h, delta_ms, timestamp_us) ==
  [h EXCEPT !.delta_ms[h.write_idx] = delta_ms,
            !.timestamp_us[h.write_idx] = timestamp_us,
            !.write_idx = (h.write_idx + 1) % DELTA_HISTORY_SIZE,
            !.count = IF h.count < DELTA_HISTORY_SIZE THEN h.count + 1 ELSE h.count]

\* a delta_history_add that never resets the history
delta_history_add_without_reset(h, delta_ms, timestamp_us) == [h EXCEPT !.delta_ms[h.write_idx] = delta_ms, !.timestamp_us[h.write_idx] = timestamp_us, !.write_idx = (h.write_idx + 1) % DELTA_HISTORY_SIZE, !.count = IF h.count < DELTA_HISTORY_SIZE THEN h.count + 1 ELSE h.count]

delta_history_add(h, delta_ms, timestamp_us) ==
  IF GapBefore(h, timestamp_us)
  THEN Stored([h EXCEPT !.count = 0, !.write_idx = 0], delta_ms, timestamp_us)
  ELSE Stored(h, delta_ms, timestamp_us)

\* the sum of f over the slots i..count-1 that are in keep, in loop order
RECURSIVE SumFrom(_, _, _, _)
SumFrom(h, keep, f, i) ==
  IF i >= h.count THEN 0
  ELSE (IF i \in keep THEN f[i] ELSE 0) + SumFrom(h, keep, f, i + 1)

\* mean, standard deviation and number of the samples in the slots keep
StatsOver(h, keep) ==
  LET valid_count == Cardinality(keep)
      mean == FDiv(SumFrom(h, keep, h.delta_ms, 0), Fl(valid_count))
      squares == [i \in 0..(DELTA_HISTORY_SIZE - 1) |->
                    FMul(h.delta_ms[i] - mean, h.delta_ms[i] - mean)]
      variance_sum == SumFrom(h, keep, squares, 0)
  IN [ok |-> TRUE, avg |-> mean, std |-> sqrtf(FDiv(variance_sum, Fl(valid_count))),
      count |-> valid_count]

\* the outputs are not written when delta_history_stats returns false
NoStats == [ok |-> FALSE, avg |-> 0, std |-> 0, count |-> 0]

delta_history_stats(h, current_us) ==
  LET cutoff == IF current_us > DELTA_WINDOW_US THEN current_us - DELTA_WINDOW_US ELSE 0
      valid == {i \in 0..(h.count - 1) : h.timestamp_us[i] >= cutoff}
  IN IF h.count = 0 \/ valid = {} THEN NoStats ELSE StatsOver(h, valid)

\* state times (0: the record has none) and frame deltas; the times jump
\* forward by less than, exactly and more than the window, and backwards
HistoryTimes == {0, 1000000, 2000000, 7000000, 7000001, 13000000}

HistoryDeltas == {-1000, 3000}

\* the timing lines of variant_info_render: what the call was given, the
\* history it found, whether it added a sample and the statistics it got
TimingFrame(monotonic_us, delta_ms, before, added, stats) ==
  [name |-> "variant_info_render", ret |-> 0, monotonic_us |-> monotonic_us,
   delta_ms |-> delta_ms, before |-> before, added |-> added, stats |-> stats]

VariantInfoTiming ==
  /\ calls.widget < calls.limit
  /\ \E monotonic_us \in HistoryTimes, delta_ms \in HistoryDeltas :
       IF monotonic_us > 0
       THEN \E h \in {delta_history_add(heap[1].data, delta_ms, monotonic_us)} :
              /\ heap' = [heap EXCEPT ![1].data = h]
              /\ op' = TimingFrame(monotonic_us, delta_ms, heap[1].data, TRUE,
                                   delta_history_stats(h, monotonic_us))
       ELSE /\ heap' = heap
            /\ op' = TimingFrame(monotonic_us, 0, heap[1].data, FALSE, NoStats)
  /\ calls' = [calls EXCEPT !.widget = @ + 1]
  /\ UNCHANGED <<fb, prev_fb, req, ctx, nav>>

InitHistory ==
  /\ fb = Mem(ClearPixels, {})
  /\ prev_fb = ClearPixels
  /\ req = {}
  /\ op = Called("load", 0)
  /\ ctx = ZeroContext
  /\ calls = [NoCalls EXCEPT !.limit = MaxHistoryCalls]
  /\ nav = ZeroNav
  /\ heap = <<Block("delta_history", ZeroHistory)>>

NextHistory == VariantInfoTiming

SpecHistory == InitHistory /\ [][NextHistory]_vars

delta_history == heap[1].data

SampleAdded == op.name = "variant_info_render" /\ op.added

\* the sample in slot i of a history
Sample(h, i) == <<h.delta_ms[i], h.timestamp_us[i]>>

\* the timestamp of the sample stored last
LastStored(h) == h.timestamp_us[(h.write_idx - 1 + DELTA_HISTORY_SIZE) % DELTA_HISTORY_SIZE]

\* C29: after any sequence of delta_history_add calls 0 <= write_idx < size
\* and 0 <= count <= size (size = DELTA_HISTORY_SIZE, 150 in the source),
\* write_idx = count whenever count < size, and every slot 0..count-1 that
\* delta_history_stats reads holds a sample written since the last reset
\* (the new sample, or what the slot held before when the call did not
\* reset); a sample stamped more than the window later than the sample
\* stored last resets the history, which then holds the new sample only
C29_RingBufferIndices ==
  /\ delta_history.write_idx >= 0 /\ delta_history.write_idx < DELTA_HISTORY_SIZE
  /\ delta_history.count >= 0 /\ delta_history.count <= DELTA_HISTORY_SIZE
  /\ delta_history.count < DELTA_HISTORY_SIZE => delta_history.write_idx = delta_history.count
  /\ SampleAdded =>
       /\ delta_history.count >= 1
       /\ \A i \in 0..(delta_history.count - 1) :
            \/ Sample(delta_history, i) = <<op.delta_ms, op.monotonic_us>>
            \/ /\ i < op.before.count
               /\ Sample(delta_history, i) = Sample(op.before, i)
               /\ ~(op.before.count > 0 /\ op.monotonic_us - LastStored(op.before) > DELTA_WINDOW_US)
       /\ (op.before.count > 0 /\ op.monotonic_us - LastStored(op.before) > DELTA_WINDOW_US) =>
            /\ delta_history.count = 1
            /\ delta_history.write_idx = 1
            /\ Sample(delta_history, 0) = <<op.delta_ms, op.monotonic_us>>

\* a full ring that wrapped (write_idx 1 with three samples) is reset by a
\* sample six seconds after the last one
C29_Witness ==
  /\ SampleAdded
  /\ op.before.count = DELTA_HISTORY_SIZE
  /\ op.before.write_idx = 1
  /\ LastStored(op.before) = 7000001
  /\ op.monotonic_us = 13000000
  /\ delta_history.count = 1
  /\ delta_history.write_idx = 1

\* the slots whose samples are stamped within the window that ends at
\* current_us
InWindow(h, current_us) ==
  {i \in 0..(h.count - 1) :
     /\ h.timestamp_us[i] >= current_us - DELTA_WINDOW_US
     /\ h.timestamp_us[i] <= current_us}

\* C30: delta_history_stats(current_us) computes average, standard
\* deviation and count over exactly the stored samples stamped within
\* [current_us - window, current_us], whatever the sequence of timestamps
\* (backwards jumps included), returns false exactly when no stored sample
\* is in that window, and right after delta_history_add(d, current_us) it
\* succeeds with a count of at least one that includes the new sample
C30_StatsOverTheWindow ==
  SampleAdded =>
    /\ op.stats.ok <=> InWindow(delta_history, op.monotonic_us) # {}
    /\ op.stats.ok => op.stats = StatsOver(delta_history, InWindow(delta_history, op.monotonic_us))
    /\ op.stats.ok /\ op.stats.count >= 1
    /\ \E i \in InWindow(delta_history, op.monotonic_us) :
         Sample(delta_history, i) = <<op.delta_ms, op.monotonic_us>>

\* what the code does: every stored sample stamped at or after the cutoff
\* counts, the ones stamped after current_us included
C30_StatsFromTheCutoffOn ==
  SampleAdded =>
    /\ op.stats.ok /\ op.stats.count >= 1
    /\ op.stats = StatsOver(delta_history,
                            {i \in 0..(delta_history.count - 1) :
                               delta_history.timestamp_us[i] >= op.monotonic_us - DELTA_WINDOW_US})
    /\ \E i \in 0..(delta_history.count - 1) :
         /\ Sample(delta_history, i) = <<op.delta_ms, op.monotonic_us>>
         /\ delta_history.timestamp_us[i] >= op.monotonic_us - DELTA_WINDOW_US

\* a sample of -1 ms at 7 s, then the clock back at 1 s with 3 ms: the
\* statistics at 1 s count both samples (average 1 ms, deviation 2 ms)
C30_SampleFromTheFuture ==
  /\ SampleAdded
  /\ delta_history.count = 2
  /\ Sample(delta_history, 0) = <<-1000, 7000000>>
  /\ Sample(delta_history, 1) = <<3000, 1000000>>
  /\ op.monotonic_us = 1000000
  /\ InWindow(delta_history, op.monotonic_us) = {1}
  /\ op.stats = [ok |-> TRUE, avg |-> 1000, std |-> 2000, count |-> 2]

====
